---- MODULE Spec2Model ----
(***************************************************************************)
(* A model of the RS screener's core: the screening engine                 *)
(* (screener_engine.py), the quality engine (quality_analyzer.py), the     *)
(* relative-strength engine (rs_calculator.py) and the data validator      *)
(* (data_validator.py).                                                    *)
(*                                                                         *)
(* Numbers.  Every real-valued quantity q of the program is held as the    *)
(* integer 100*q (hundredths): 84.9 is 8490, a debt/equity of 0.3 is 30.   *)
(* Quantities that are not multiples of 1/100 (a min-max normalised value, *)
(* a composite score) are exact rationals [n |-> numerator, d |-> denom.]  *)
(* of hundredths.  Arithmetic is exact: binary floating-point rounding is  *)
(* not modelled.  NaN is the pandas/numpy missing value; every comparison  *)
(* with it is false, as in pandas.                                         *)
(***************************************************************************)
EXTENDS Integers, Sequences, FiniteSets, TLC

VARIABLES
    pc,         \* the step the current run has reached
    params,     \* ScreenerEngine.params : a dict (a function on its present keys)
    df,         \* the table handed to the screening engine (a sequence of rows)
    filtered,   \* what apply_filters returned
    scored,     \* what calculate_composite_scores returned
    rescored,   \* what a second call of calculate_composite_scores returned
    fundamentals_df,  \* QualityAnalyzer.fundamentals_df (a sequence of rows)
    quality,    \* what calculate_quality_scores returned
    gate_args,  \* the thresholds of a call of is_quality_stock
    is_quality, \* what that call returned
    price_data, \* RSCalculator.price_data : symbol -> frame, in dict order
    returns,    \* RSCalculator.returns : symbol -> daily returns
    rs_results, \* what calculate_rs_metrics returned
    period_args,    \* the arguments of a call of _calc_period_return
    period_return,  \* what that call returned
    pad,        \* whether this pandas build pads NaN in pct_change
    min_days,   \* the min_days argument of validate_price_data
    valid_data, \* validate_price_data: the first component of the result
    issues,     \* validate_price_data: the second component of the result
    valid_df,   \* validate_fundamentals: the first component of the result
    issues_by_stock,    \* validate_fundamentals: the second component
    validation_results, \* DataValidator.validation_results
    rs_df,      \* the table handed to validate_rs_results
    rs_valid_df,    \* validate_rs_results: the first component of the result
    rs_issues,  \* validate_rs_results: the second component of the result
    now,        \* the wall clock (datetime.now()), in seconds
    memory_cache,   \* CacheManager.memory_cache : key -> cache_data
    file_cache, \* the files of CacheManager.cache_dir : key -> file content
    cache_call, \* the last call of the cache and what it returned
    set_log,    \* for each subject, the last call that cached data for it
    use_breeze, \* DataFetcher.use_breeze and DataFetcher.breeze are set
    fetch_call, \* the last call of fetch_historical_prices and its result
    fetch_log,  \* the upstream fetches made so far (symbols, period, source)
    api_key,    \* AIAnalyzer.api_key
    ai_df,      \* the table handed to analyze_top_stocks
    analyzed    \* what analyze_top_stocks returned

screenVars == <<params, df, filtered, scored, rescored>>
qualityVars == <<fundamentals_df, quality, gate_args, is_quality>>
rsVars == <<price_data, returns, rs_results, period_args, period_return>>
validatorVars == <<min_days, valid_data, issues, valid_df, issues_by_stock,
                   validation_results, rs_df, rs_valid_df, rs_issues>>
vars == <<pc, params, df, filtered, scored, rescored, fundamentals_df, quality,
          gate_args, is_quality,
          price_data, returns, rs_results, period_args, period_return, pad,
          min_days, valid_data, issues,
          valid_df, issues_by_stock, validation_results,
          rs_df, rs_valid_df, rs_issues,
          now, memory_cache, file_cache, cache_call, set_log,
          use_breeze, fetch_call, fetch_log, api_key, ai_df, analyzed>>
cacheVars == <<now, memory_cache, file_cache, cache_call, set_log>>
fetcherVars == <<use_breeze, fetch_call, fetch_log>>
aiVars == <<api_key, ai_df, analyzed>>
collaboratorVars == <<cacheVars, fetcherVars, aiVars>>

\* The parts of the state a component's specification leaves untouched: no
\* object of the other components has been constructed
NotRun == [raised |-> FALSE, rows |-> <<>>]
ScreenIdle ==
    /\ params = <<>> /\ df = <<>> /\ filtered = NotRun /\ scored = <<>>
    /\ rescored = <<>>
NoGate == [min_roe |-> 0, max_de |-> 0, min_margin |-> 0]
QualityGateIdle == gate_args = NoGate /\ is_quality = FALSE
QualityIdle == fundamentals_df = <<>> /\ quality = <<>> /\ QualityGateIdle
NoCall == [symbol |-> "", period |-> 0, skip_recent |-> 0]
NoReturn == [n |-> -2000000, d |-> 1]
RSCallIdle == period_args = NoCall /\ period_return = NoReturn
RSIdle ==
    /\ price_data = <<>> /\ returns = <<>> /\ rs_results = <<>> /\ RSCallIdle
RSCheckIdle == rs_df = <<>> /\ rs_valid_df = <<>> /\ rs_issues = <<>>
ValidatorIdle ==
    /\ min_days = 0 /\ valid_data = <<>> /\ issues = <<>>
    /\ valid_df = <<>> /\ issues_by_stock = <<>> /\ validation_results = <<>>
    /\ RSCheckIdle
NoCacheCall == [op |-> "none"]
CacheIdle ==
    /\ now = 0 /\ memory_cache = <<>> /\ file_cache = <<>>
    /\ cache_call = NoCacheCall /\ set_log = <<>>
FetcherIdle ==
    use_breeze = FALSE /\ fetch_call = NoCacheCall /\ fetch_log = <<>>
AIIdle == api_key = "" /\ ai_df = <<>> /\ analyzed = NotRun
CollaboratorsIdle == CacheIdle /\ FetcherIdle /\ AIIdle

(***************************************************************************)
(* Values                                                                  *)
(***************************************************************************)
NaN == -1000000          \* numpy.nan / a missing cell
None == -2000000         \* Python None (dict.get on an absent key)

Pct(x) == x * 100        \* the real number x, in hundredths

\* pandas / numpy comparisons: False as soon as one side is NaN
GE(a, b) == a # NaN /\ b # NaN /\ a >= b
LE(a, b) == a # NaN /\ b # NaN /\ a <= b

\* Python truthiness of a number or None: `if x:`
Truthy(x) == x # None /\ x # 0

\* dict.get(key, default)
Get(d, key, default) == IF key \in DOMAIN d THEN d[key] ELSE default

\* Exact rationals of hundredths, in lowest terms; [n |-> NaN, d |-> 1] is NaN
RECURSIVE GCD(_, _)
GCD(a, b) == IF b = 0 THEN a ELSE GCD(b, a % b)
Abs(x) == IF x < 0 THEN -x ELSE x
Rat(n, d) == LET g == GCD(Abs(n), d) IN [n |-> n \div g, d |-> d \div g]
RNaN == [n |-> NaN, d |-> 1]
RIsNaN(x) == x.n = NaN
RInt(v) == IF v = NaN THEN RNaN ELSE Rat(v, 1)
RAdd(x, y) ==
    IF RIsNaN(x) \/ RIsNaN(y) THEN RNaN
    ELSE Rat(x.n * y.d + y.n * x.d, x.d * y.d)
\* (w / 100) * x : a weight written 0.60 in the source is w = 60
RWeight(w, x) == IF RIsNaN(x) THEN RNaN ELSE Rat(w * x.n, 100 * x.d)
RGe(x, y) == ~RIsNaN(x) /\ ~RIsNaN(y) /\ x.n * y.d >= y.n * x.d
REq(x, y) == IF RIsNaN(x) \/ RIsNaN(y) THEN RIsNaN(x) /\ RIsNaN(y)
             ELSE x.n * y.d = y.n * x.d
\* Series.fillna(v)
RFillNa(x, v) == IF RIsNaN(x) THEN Rat(v, 1) ELSE x

(***************************************************************************)
(* config.py : SIGNAL_THRESHOLDS                                           *)
(***************************************************************************)
BUY_composite_min == 75
BUY_rs_min == 85
STRONG_WATCH_composite_min == 70
WATCH_composite_min == 60

(***************************************************************************)
(* screener_engine.py : ScreenerEngine                                     *)
(***************************************************************************)
KeyError == [raised |-> TRUE, rows |-> <<>>]
Returned(t) == [raised |-> FALSE, rows |-> t]

\* apply_filters(df): the row selections, in the order of the source.  A
\* subscript self.params['k'] on an absent key raises KeyError.
apply_filters(p, t) ==
    IF "rs_threshold" \notin DOMAIN p THEN KeyError
    ELSE
    LET d1 == SelectSeq(t, LAMBDA r : GE(r.rs_percentile, p.rs_threshold))
        d2 == IF Truthy(Get(p, "min_roe", None))
              THEN SelectSeq(d1, LAMBDA r : GE(r.roe, p.min_roe) \/ r.roe = NaN)
              ELSE d1
        d3 == IF Truthy(Get(p, "max_de", None))
              THEN SelectSeq(d2, LAMBDA r : LE(r.debt_equity, p.max_de)
                                            \/ r.debt_equity = NaN)
              ELSE d2
        d4 == IF Truthy(Get(p, "min_margin", None))
              THEN SelectSeq(d3, LAMBDA r : GE(r.operating_margin, p.min_margin)
                                            \/ r.operating_margin = NaN)
              ELSE d3
    IN  IF Truthy(Get(p, "min_mcap", Pct(5000)))
        THEN IF "min_mcap" \notin DOMAIN p THEN KeyError
             ELSE Returned(SelectSeq(
                     SelectSeq(d4, LAMBDA r : GE(r.market_cap, p.min_mcap)),
                     LAMBDA r : r.current_price # NaN /\ r.rs_percentile # NaN))
        ELSE Returned(SelectSeq(d4,
                     LAMBDA r : r.current_price # NaN /\ r.rs_percentile # NaN))

\* Series.min() / Series.max() of a column: NaN cells are skipped, NaN if none
ColValues(t, col) == {t[i][col] : i \in 1..Len(t)} \ {NaN}
ColMin(t, col) ==
    IF ColValues(t, col) = {} THEN NaN
    ELSE CHOOSE v \in ColValues(t, col) : \A w \in ColValues(t, col) : v <= w
ColMax(t, col) ==
    IF ColValues(t, col) = {} THEN NaN
    ELSE CHOOSE v \in ColValues(t, col) : \A w \in ColValues(t, col) : v >= w

\* A slip: the normalisation is not inverted (the "100 -" is dropped)
InvMinMax_NotInverted(t, col, i) ==
    LET x  == t[i][col]
        lo == IF {t[k][col] : k \in 1..Len(t)} \ {NaN} = {} THEN NaN
              ELSE CHOOSE v \in {t[k][col] : k \in 1..Len(t)} \ {NaN} :
                     \A w \in {t[k][col] : k \in 1..Len(t)} \ {NaN} : v <= w
        hi == IF {t[k][col] : k \in 1..Len(t)} \ {NaN} = {} THEN NaN
              ELSE CHOOSE v \in {t[k][col] : k \in 1..Len(t)} \ {NaN} :
                     \A w \in {t[k][col] : k \in 1..Len(t)} \ {NaN} : v >= w
    IN  IF x = NaN \/ lo = NaN THEN RNaN
        ELSE IF hi - lo = 0 THEN RNaN
        ELSE Rat((x - lo) * Pct(100), hi - lo)

\* 100 - ((x - min) / (max - min) * 100) for the cell x of row i.  A NaN cell
\* gives NaN; max = min gives 0/0 = NaN (x - min is then 0 for every cell).
InvMinMax(t, col, i) ==
    LET x  == t[i][col]
        lo == ColMin(t, col)
        hi == ColMax(t, col)
    IN  IF x = NaN \/ lo = NaN THEN RNaN
        ELSE IF hi - lo = 0 THEN RNaN
        ELSE Rat(Pct(100) * (hi - lo) - (x - lo) * Pct(100), hi - lo)

\* A slip: the strategy matched by its leading words, so that a UI label
\* that starts with a named strategy selects that strategy's blend
composite_score_LabelPrefix(p, t, i) ==
    LET strategy == Get(p, "strategy", "RS + Quality")
        rs == RInt(t[i].rs_percentile)
        q0 == RFillNa(RInt(t[i].quality_score), 0)
    IN  IF strategy \in {"RS + Quality", "RS + Quality (Recommended)"}
        THEN RAdd(RWeight(60, rs), RWeight(40, q0))
        ELSE IF strategy = "RS + Value"
        THEN RAdd(RAdd(RWeight(50, rs),
                       RWeight(30, RFillNa(InvMinMax(t, "pe_ratio", i), Pct(50)))),
                  RWeight(20, q0))
        ELSE IF strategy = "RS + Low Volatility"
        THEN RAdd(RWeight(50, rs),
                  RWeight(50, RFillNa(InvMinMax(t, "volatility", i), Pct(50))))
        ELSE rs

\* The composite_score column of row i of the batch t
composite_score(p, t, i) ==
    LET strategy == Get(p, "strategy", "RS + Quality")
        rs == RInt(t[i].rs_percentile)
        q0 == RFillNa(RInt(t[i].quality_score), 0)
    IN  IF strategy = "RS + Quality"
        THEN RAdd(RWeight(60, rs), RWeight(40, q0))
        ELSE IF strategy = "RS + Value"
        THEN RAdd(RAdd(RWeight(50, rs),
                       RWeight(30, RFillNa(InvMinMax(t, "pe_ratio", i), Pct(50)))),
                  RWeight(20, q0))
        ELSE IF strategy = "RS + Low Volatility"
        THEN RAdd(RWeight(50, rs),
                  RWeight(50, RFillNa(InvMinMax(t, "volatility", i), Pct(50))))
        ELSE rs

\* A slip: BUY on the score floor alone, the rs_percentile floor forgotten
generate_signal_ScoreOnly(composite, rs_percentile) ==
    IF RGe(composite, RInt(Pct(BUY_composite_min)))
    THEN "BUY"
    ELSE IF RGe(composite, RInt(Pct(STRONG_WATCH_composite_min)))
    THEN "STRONG_WATCH"
    ELSE IF RGe(composite, RInt(Pct(WATCH_composite_min)))
    THEN "WATCH"
    ELSE "AVOID"

\* _generate_signal(row)
generate_signal(composite, rs_percentile) ==
    IF RGe(composite, RInt(Pct(BUY_composite_min)))
       /\ GE(rs_percentile, Pct(BUY_rs_min))
    THEN "BUY"
    ELSE IF RGe(composite, RInt(Pct(STRONG_WATCH_composite_min)))
    THEN "STRONG_WATCH"
    ELSE IF RGe(composite, RInt(Pct(WATCH_composite_min)))
    THEN "WATCH"
    ELSE "AVOID"

\* A slip: df['composite_score'] += ..., the score added to the column when
\* the table already has one
WithScores_Cumulative(p, t) ==
    [i \in 1..Len(t) |->
        LET fresh == composite_score(p, t, i)
            c == IF "composite_score" \in DOMAIN t[i]
                 THEN RAdd(t[i].composite_score, fresh) ELSE fresh
        IN  [composite_score |-> c,
             signal |-> generate_signal(c, t[i].rs_percentile)] @@ t[i]]

\* The table with its two new columns, before the sort
WithScores(p, t) ==
    [i \in 1..Len(t) |->
        LET c == composite_score(p, t, i)
        IN  [composite_score |-> c,
             signal |-> generate_signal(c, t[i].rs_percentile)] @@ t[i]]

\* sort_values('composite_score', ascending=False): NaN scores last.  The
\* default sort kind (quicksort) is not stable, so any order of equal scores
\* is a possible result.
Before(a, b) ==
    \/ RIsNaN(b.composite_score)
    \/ RGe(a.composite_score, b.composite_score)
SortedDescending(t) == \A i \in 1..Len(t) : \A j \in i..Len(t) : Before(t[i], t[j])
Orders(n) == {o \in [1..n -> 1..n] : \A i, j \in 1..n : i # j => o[i] # o[j]}
SortResults(t) ==
    {[i \in 1..Len(t) |-> t[o[i]]] : o \in
        {o \in Orders(Len(t)) :
            SortedDescending([i \in 1..Len(t) |-> t[o[i]]])}}

(***************************************************************************)
(* Inputs of the screening engine                                          *)
(***************************************************************************)
MaxBatch == 3
Symbols == <<"AAA", "BBB", "CCC", "DDD", "EEE">>

Row(s, rs, roe, de, om, mc, cp, q, pe, vol) ==
    [symbol |-> s, rs_percentile |-> rs, roe |-> roe, debt_equity |-> de,
     operating_margin |-> om, market_cap |-> mc, current_price |-> cp,
     quality_score |-> q, pe_ratio |-> pe, volatility |-> vol]

Opt(key, values) == {<<>>} \cup {(key :> v) : v \in values}

\* Score inputs: the columns the strategy reads vary, the others are held fixed
RsVals == {0, 8490, 8500, 10000}
QVals == {NaN, 6015, 10000}
RatioVals == {NaN, 1000, 2000, 4000}
Strategies == {"RS + Quality", "RS + Value", "RS + Low Volatility", "Pure RS",
               "RS + Quality (Recommended)", "Pure RS (Advanced)"}

ScoreRow(s, rs, q, pe, vol) ==
    Row(s, rs, 1800, 50, 1200, Pct(9000), Pct(250), q, pe, vol)

ScoreCells(p) ==
    LET strategy == Get(p, "strategy", "RS + Quality")
    IN  IF strategy = "RS + Quality"
        THEN {<<rs, q, 2000, 2500>> : rs \in RsVals, q \in QVals}
        ELSE IF strategy = "RS + Value"
        THEN {<<rs, q, pe, 2500>> : rs \in {8490, 10000}, q \in {NaN, 6015},
                                    pe \in RatioVals}
        ELSE IF strategy = "RS + Low Volatility"
        THEN {<<rs, 6015, 2000, vol>> : rs \in {8490, 10000}, vol \in RatioVals}
        ELSE {<<rs, q, 2000, 2500>> : rs \in RsVals, q \in {NaN, 10000}}

\* the cells of the rows after the third: the extremes of the batch
ScoreCellsSmall == {<<0, NaN, NaN, NaN>>, <<10000, 10000, 4000, 4000>>}
\* the first three rows take any cells, the rows after them the small set
ScoreTables(p) ==
    UNION {{[i \in 1..n |-> ScoreRow(Symbols[i], c[i][1], c[i][2], c[i][3], c[i][4])] :
                c \in {c \in [1..n -> ScoreCells(p) \cup ScoreCellsSmall] :
                          \A i \in 1..n : IF i <= 3 THEN c[i] \in ScoreCells(p)
                                                    ELSE c[i] \in ScoreCellsSmall}} :
           n \in 1..MaxBatch}

ScoreParams == {("rs_threshold" :> Pct(80)) @@ o : o \in Opt("strategy", Strategies)}

\* Filter inputs
FilterRows ==
    {Row("AAA", rs, roe, de, om, mc, cp, 6250, 2000, 2500) :
        rs \in {NaN, 7000, 9000}, roe \in {NaN, -500, 2000},
        de \in {NaN, 50, 150}, om \in {NaN, -500, 2000},
        mc \in {NaN, Pct(4000), Pct(6000)}, cp \in {NaN, Pct(250)}}
FilterRowsSmall(s) ==
    {Row(s, rs, roe, 50, 2000, mc, Pct(250), 6250, 2000, 2500) :
        rs \in {7000, 9000}, roe \in {NaN, -500},
        mc \in {NaN, Pct(6000)}}
FilterTables(max) ==
    {<<r>> : r \in FilterRows}
    \cup UNION {{[i \in 1..n |-> c[i]] :
                    c \in {c \in [1..n -> UNION {FilterRowsSmall(Symbols[k]) : k \in 1..n}] :
                              \A i \in 1..n : c[i].symbol = Symbols[i]}} :
                n \in 2..max}
FilterParams ==
    {o1 @@ o2 @@ o3 @@ o4 @@ o5 :
        o1 \in Opt("rs_threshold", {Pct(80)}),
        o2 \in Opt("min_roe", {0, Pct(15)}),
        o3 \in Opt("max_de", {0, 100}),
        o4 \in Opt("min_margin", {0, Pct(10)}),
        o5 \in Opt("min_mcap", {0, Pct(5000)})}


(***************************************************************************)
(* config.py : QUALITY_THRESHOLDS, QUALITY_WEIGHTS (hundredths)            *)
(***************************************************************************)
Tiers(excellent, good, acceptable, poor) ==
    [excellent |-> excellent, good |-> good, acceptable |-> acceptable,
     poor |-> poor]
QUALITY_THRESHOLDS ==
    [roe |-> Tiers(Pct(20), Pct(15), Pct(10), Pct(5)),
     debt_equity |-> Tiers(30, 50, 100, 200),
     operating_margin |-> Tiers(Pct(20), Pct(15), Pct(10), Pct(5)),
     current_ratio |-> Tiers(200, 150, 100, 80),
     profit_margin |-> Tiers(Pct(10), Pct(7), Pct(5), Pct(2)),
     roa |-> Tiers(Pct(10), Pct(7), Pct(5), Pct(3))]
QUALITY_WEIGHTS ==
    [roe |-> 25, debt_equity |-> 20, operating_margin |-> 20,
     current_ratio |-> 15, profit_margin |-> 10, roa |-> 10]
\* QUALITY_WEIGHTS.items(), in the order of the dict
Metrics == <<"roe", "debt_equity", "operating_margin", "current_ratio",
             "profit_margin", "roa">>

(***************************************************************************)
(* quality_analyzer.py : QualityAnalyzer                                   *)
(***************************************************************************)
\* A slip: strict comparisons, so a value on a threshold falls one tier lower
score_metric_Strict(metric, value) ==
    LET thresholds == QUALITY_THRESHOLDS[metric]
    IN  IF metric = "debt_equity"
        THEN IF value < thresholds.excellent THEN 100
             ELSE IF value < thresholds.good THEN 75
             ELSE IF value < thresholds.acceptable THEN 50
             ELSE IF value < thresholds.poor THEN 25
             ELSE 0
        ELSE IF value > thresholds.excellent THEN 100
             ELSE IF value > thresholds.good THEN 75
             ELSE IF value > thresholds.acceptable THEN 50
             ELSE IF value > thresholds.poor THEN 25
             ELSE 0

\* A slip: debt_equity scored like the other metrics, higher is better
score_metric_NoInversion(metric, value) ==
    LET thresholds == QUALITY_THRESHOLDS[metric]
    IN  IF metric = "debt_equity"
        THEN IF value >= thresholds.poor THEN 100
             ELSE IF value >= thresholds.acceptable THEN 75
             ELSE IF value >= thresholds.good THEN 50
             ELSE IF value >= thresholds.excellent THEN 25
             ELSE 0
        ELSE IF value >= thresholds.excellent THEN 100
             ELSE IF value >= thresholds.good THEN 75
             ELSE IF value >= thresholds.acceptable THEN 50
             ELSE IF value >= thresholds.poor THEN 25
             ELSE 0

\* _score_metric(metric, value): the sub-score, in hundredths (1.0 is 100)
score_metric(metric, value) ==
    LET thresholds == QUALITY_THRESHOLDS[metric]
    IN  IF metric = "debt_equity"
        THEN IF value <= thresholds.excellent THEN 100
             ELSE IF value <= thresholds.good THEN 75
             ELSE IF value <= thresholds.acceptable THEN 50
             ELSE IF value <= thresholds.poor THEN 25
             ELSE 0
        ELSE IF value >= thresholds.excellent THEN 100
             ELSE IF value >= thresholds.good THEN 75
             ELSE IF value >= thresholds.acceptable THEN 50
             ELSE IF value >= thresholds.poor THEN 25
             ELSE 0

Min(a, b) == IF a <= b THEN a ELSE b

\* _calc_quality_score(row).  `score` after the first k metrics is
\* ScoreSum(row, k) / 10000; a missing metric adds weight * 50, that is
\* QUALITY_WEIGHTS[m] * 5000 here.  The result min(score * 100, 100) is in
\* hundredths.
RECURSIVE ScoreSum(_, _)
ScoreSum(row, k) ==
    IF k = 0 THEN 0
    ELSE LET metric == Metrics[k]
         IN  ScoreSum(row, k - 1)
             + (IF row[metric] # NaN
                THEN QUALITY_WEIGHTS[metric] * score_metric(metric, row[metric])
                ELSE QUALITY_WEIGHTS[metric] * Pct(50))
calc_quality_score(row) == Min(ScoreSum(row, Len(Metrics)), Pct(100))

\* _get_grade(score)
get_grade(score) ==
    IF score >= Pct(90) THEN "A+"
    ELSE IF score >= Pct(80) THEN "A"
    ELSE IF score >= Pct(70) THEN "B+"
    ELSE IF score >= Pct(60) THEN "B"
    ELSE IF score >= Pct(50) THEN "C"
    ELSE "D"

\* A slip: one evaluable check is enough
is_quality_stock_OneCheck(row, min_roe, max_de, min_margin) ==
    LET checks ==
            (IF row.roe # NaN THEN <<row.roe >= min_roe>> ELSE <<>>)
            \o (IF row.debt_equity # NaN THEN <<row.debt_equity <= max_de>> ELSE <<>>)
            \o (IF row.operating_margin # NaN
                THEN <<row.operating_margin >= min_margin>> ELSE <<>>)
    IN  Len(checks) >= 1 /\ \A i \in 1..Len(checks) : checks[i]

\* is_quality_stock(row, min_roe, max_de, min_margin): `checks` holds the
\* outcome of each check whose metric is present
is_quality_stock(row, min_roe, max_de, min_margin) ==
    LET checks ==
            (IF row.roe # NaN THEN <<row.roe >= min_roe>> ELSE <<>>)
            \o (IF row.debt_equity # NaN THEN <<row.debt_equity <= max_de>> ELSE <<>>)
            \o (IF row.operating_margin # NaN
                THEN <<row.operating_margin >= min_margin>> ELSE <<>>)
    IN  Len(checks) >= 2 /\ \A i \in 1..Len(checks) : checks[i]

\* calculate_quality_scores(): a copy of the table with the two new columns
calculate_quality_scores(t) ==
    [i \in 1..Len(t) |->
        LET q == calc_quality_score(t[i])
        IN  [quality_score |-> q, quality_grade |-> get_grade(q)] @@ t[i]]

(***************************************************************************)
(* Inputs of the quality engine: each metric missing, below its poor       *)
(* threshold, or on one of its four thresholds                             *)
(***************************************************************************)
FundRow(s, roe, de, om, cr, pm, roa) ==
    [symbol |-> s, roe |-> roe, debt_equity |-> de, operating_margin |-> om,
     current_ratio |-> cr, profit_margin |-> pm, roa |-> roa]
QualityRows(s) ==
    {FundRow(s, roe, de, om, cr, pm, roa) :
        roe \in {NaN, 400, 500, 1000, 1500, 1999, 2000},
        de \in {NaN, 30, 31, 50, 100, 200, 250},
        om \in {NaN, 400, 500, 1000, 1500, 2000},
        cr \in {NaN, 50, 80, 100, 150, 200},
        pm \in {NaN, 100, 200, 500, 700, 1000},
        roa \in {NaN, 100, 300, 500, 700, 1000}}
QualityTables(s) == {<<r>> : r \in QualityRows(s)}


InitQuality ==
    /\ pc = "start"
    /\ fundamentals_df \in QualityTables(Symbols[1])
    /\ quality = <<>>
    /\ QualityGateIdle
    /\ ScreenIdle /\ RSIdle /\ ValidatorIdle /\ pad = TRUE
    /\ CollaboratorsIdle

\* QualityAnalyzer(fundamentals_df).calculate_quality_scores()
CalculateQualityScores ==
    /\ pc = "start"
    /\ quality' = calculate_quality_scores(fundamentals_df)
    /\ pc' = "quality_scored"
    /\ UNCHANGED <<fundamentals_df, gate_args, is_quality>>
    /\ UNCHANGED <<screenVars, rsVars, pad, validatorVars, collaboratorVars>>

NextQuality == CalculateQualityScores
SpecQuality == InitQuality /\ [][NextQuality]_vars

\* Tables of two rows that differ in one metric only, roe or debt_equity,
\* present in both rows; the other five metrics take any of a few values
RoeVals == {400, 500, 1000, 1500, 1999, 2000, 2500}
DebtVals == {0, 30, 31, 50, 100, 200, 250}
RestOfRow ==
    [operating_margin : {NaN, 400, 2000}, current_ratio : {NaN, 50, 200},
     profit_margin : {NaN, 100}, roa : {NaN, 1000}]
QualityPairs ==
    {<<FundRow("AAA", a, de, o.operating_margin, o.current_ratio,
               o.profit_margin, o.roa),
       FundRow("BBB", b, de, o.operating_margin, o.current_ratio,
               o.profit_margin, o.roa)>> :
        a \in RoeVals, b \in RoeVals, de \in {NaN, 30, 250}, o \in RestOfRow}
    \cup
    {<<FundRow("AAA", roe, a, o.operating_margin, o.current_ratio,
               o.profit_margin, o.roa),
       FundRow("BBB", roe, b, o.operating_margin, o.current_ratio,
               o.profit_margin, o.roa)>> :
        a \in DebtVals, b \in DebtVals, roe \in {NaN, 400, 2000}, o \in RestOfRow}

InitQualityPair ==
    /\ pc = "start"
    /\ fundamentals_df \in QualityPairs
    /\ quality = <<>>
    /\ QualityGateIdle
    /\ ScreenIdle /\ RSIdle /\ ValidatorIdle /\ pad = TRUE
    /\ CollaboratorsIdle

SpecQualityPair == InitQualityPair /\ [][NextQuality]_vars

\* One call of is_quality_stock on the row of a one-row table: the three
\* gated metrics missing, failing, on and beyond the threshold; the
\* thresholds the defaults (15, 1.0, 10) or others
GateRows ==
    {FundRow("AAA", roe, de, om, 150, 800, 600) :
        roe \in {NaN, 1499, 1500, 2000}, de \in {NaN, 50, 100, 101},
        om \in {NaN, 999, 1000, 2000}}
GateArgs ==
    [min_roe : {Pct(15), 0}, max_de : {100, 50}, min_margin : {Pct(10), Pct(20)}]

InitGate ==
    /\ pc = "start"
    /\ fundamentals_df \in {<<r>> : r \in GateRows}
    /\ quality = <<>>
    /\ gate_args \in GateArgs
    /\ is_quality = FALSE
    /\ ScreenIdle /\ RSIdle /\ ValidatorIdle /\ pad = TRUE
    /\ CollaboratorsIdle

\* QualityAnalyzer(fundamentals_df).is_quality_stock(row, ...)
IsQualityStock ==
    /\ pc = "start"
    /\ is_quality' = is_quality_stock(fundamentals_df[1], gate_args.min_roe,
                                      gate_args.max_de, gate_args.min_margin)
    /\ pc' = "gated"
    /\ UNCHANGED <<fundamentals_df, quality, gate_args>>
    /\ UNCHANGED <<screenVars, rsVars, pad, validatorVars, collaboratorVars>>

NextGate == IsQualityStock
SpecGate == InitGate /\ [][NextGate]_vars


(***************************************************************************)
(* Price frames: a pandas DataFrame of daily bars, or None                 *)
(***************************************************************************)
\* Close and Volume are the columns (Volume may be absent); days_old is
\* (datetime.now() - df.index[-1]).days
Frame(close, has_volume, volume, days_old) ==
    [none |-> FALSE, Close |-> close, has_volume |-> has_volume,
     Volume |-> volume, days_old |-> days_old]
NoneFrame ==
    [none |-> TRUE, Close |-> <<>>, has_volume |-> FALSE, Volume |-> <<>>,
     days_old |-> 0]
IsEmpty(f) == Len(f.Close) = 0

\* A daily return: NaN, or the exact rational (cur / prev - 1); Inf when
\* prev is 0 and cur is not
Inf == 1000000
\* Series.pct_change(): the first element is NaN.  With pad (the default
\* fill_method of pandas up to 2.x) a NaN close is first replaced by the last
\* valid close before it; without (pandas 3) it is left NaN.
RECURSIVE Padded(_)
Padded(c) ==
    IF Len(c) = 0 THEN c
    ELSE LET init == Padded(SubSeq(c, 1, Len(c) - 1))
         IN  Append(init, IF c[Len(c)] = NaN /\ Len(init) > 0
                          THEN init[Len(init)] ELSE c[Len(c)])
Change(prev, cur) ==
    IF prev = NaN \/ cur = NaN THEN RNaN
    ELSE IF prev = 0 THEN (IF cur = 0 THEN RNaN ELSE [n |-> Inf, d |-> 1])
    ELSE Rat(cur - prev, prev)
pct_change(c, padding) ==
    LET v == IF padding THEN Padded(c) ELSE c
    IN  [i \in 1..Len(c) |-> IF i = 1 THEN RNaN ELSE Change(v[i - 1], v[i])]

(***************************************************************************)
(* rs_calculator.py : RSCalculator                                         *)
(***************************************************************************)
\* RS_CONFIG['lookback_period'] (252) and ['skip_recent_days'] (21), scaled
\* down with the length of the modelled price histories
lookback_period == 2
skip_recent_days == 1

RNone == [n |-> None, d |-> 1]
IsValidReturn(r) == r.n # None /\ r.n # NaN

Keys(pd) == {pd[k].symbol : k \in 1..Len(pd)}
FrameOf(pd, symbol) == pd[CHOOSE k \in 1..Len(pd) : pd[k].symbol = symbol].df

\* A slip: the end price is read at the last bar, skip_recent ignored
calc_period_return_NoSkip(pd, symbol, period, skip_recent) ==
    IF symbol \notin Keys(pd) \/ FrameOf(pd, symbol).none THEN RNone
    ELSE LET c == FrameOf(pd, symbol).Close
             n == Len(c)
         IN  IF n < period + skip_recent THEN RNone
             ELSE IF 1 + period > n THEN RNone
             ELSE LET end_price == c[n]
                      start_price == c[n - period]
                  IN  IF start_price = 0 \/ start_price = NaN \/ end_price = NaN
                      THEN RNone
                      ELSE Rat(Pct(100) * (end_price - start_price), start_price)

\* _calc_period_return(symbol, period, skip_recent): in percent (hundredths).
\* iloc[-k] raises IndexError when k > len(df); the bare except returns None.
calc_period_return(pd, symbol, period, skip_recent) ==
    IF symbol \notin Keys(pd) \/ FrameOf(pd, symbol).none THEN RNone
    ELSE LET c == FrameOf(pd, symbol).Close
             n == Len(c)
             end_back == 1 + skip_recent          \* end_idx = -end_back
             start_back == end_back + period      \* start_idx = -start_back
         IN  IF n < period + skip_recent THEN RNone
             ELSE IF end_back > n \/ start_back > n THEN RNone
             ELSE LET end_price == c[n + 1 - end_back]
                      start_price == c[n + 1 - start_back]
                  IN  IF start_price = 0 \/ start_price = NaN \/ end_price = NaN
                      THEN RNone
                      ELSE Rat(Pct(100) * (end_price - start_price), start_price)

lookback_return(pd, symbol) ==
    calc_period_return(pd, symbol, lookback_period, skip_recent_days)

\* _calculate_all_returns(): the symbols whose frame is neither None nor empty
calculate_all_returns(pd, padding) ==
    [s \in {pd[k].symbol : k \in {k \in 1..Len(pd) :
                                   ~pd[k].df.none /\ ~IsEmpty(pd[k].df)}} |->
        pct_change(FrameOf(pd, s).Close, padding)]

RLt(x, y) == x.n * y.d < y.n * x.d

\* The valid lookback returns of self.returns.keys(), in dict order
ValidReturns(pd, ret) ==
    SelectSeq([k \in 1..Len(pd) |-> [symbol |-> pd[k].symbol,
                                     r |-> lookback_return(pd, pd[k].symbol)]],
              LAMBDA e : e.symbol \in DOMAIN ret /\ IsValidReturn(e.r))

\* A slip: <= instead of <, the symbol itself and its ties counted as below
calc_rs_percentile_Inclusive(pd, ret, symbol) ==
    LET stock_return == lookback_return(pd, symbol)
        all_returns == ValidReturns(pd, ret)
    IN  IF ~IsValidReturn(stock_return) THEN RInt(0)
        ELSE IF Len(all_returns) = 0 THEN RInt(Pct(50))
        ELSE Rat(Pct(100) * Cardinality({k \in 1..Len(all_returns) :
                                           ~RLt(stock_return, all_returns[k].r)}),
                 Len(all_returns))

\* _calc_rs_percentile(symbol), in hundredths
calc_rs_percentile(pd, ret, symbol) ==
    LET stock_return == lookback_return(pd, symbol)
        all_returns == ValidReturns(pd, ret)
    IN  IF ~IsValidReturn(stock_return) THEN RInt(0)
        ELSE IF Len(all_returns) = 0 THEN RInt(Pct(50))
        ELSE Rat(Pct(100) * Cardinality({k \in 1..Len(all_returns) :
                                           RLt(all_returns[k].r, stock_return)}),
                 Len(all_returns))

\* A slip: the rank counts only the strictly higher returns, so equal
\* returns share a rank
calc_rs_rank_Shared(pd, ret, symbol) ==
    LET stock_return == lookback_return(pd, symbol)
        returns_list == ValidReturns(pd, ret)
    IN  IF stock_return.n = None THEN 999
        ELSE IF \A k \in 1..Len(returns_list) : returns_list[k].symbol # symbol
        THEN 999
        ELSE 1 + Cardinality({k \in 1..Len(returns_list) :
                                RLt(stock_return, returns_list[k].r)})

\* A slip: the list sorted in ascending order, rank 1 the lowest return
calc_rs_rank_Ascending(pd, ret, symbol) ==
    LET stock_return == lookback_return(pd, symbol)
        returns_list == ValidReturns(pd, ret)
        at == {k \in 1..Len(returns_list) : returns_list[k].symbol = symbol}
    IN  IF stock_return.n = None THEN 999
        ELSE IF at = {} THEN 999
        ELSE LET me == CHOOSE k \in at : TRUE
             IN  1 + Cardinality({k \in 1..Len(returns_list) :
                        \/ RLt(returns_list[k].r, stock_return)
                        \/ (k < me /\ ~RLt(stock_return, returns_list[k].r))})

\* _calc_rs_rank(symbol): list.sort(reverse=True) is stable, so among equal
\* returns the dict order is kept
calc_rs_rank(pd, ret, symbol) ==
    LET stock_return == lookback_return(pd, symbol)
        returns_list == ValidReturns(pd, ret)
        at == {k \in 1..Len(returns_list) : returns_list[k].symbol = symbol}
    IN  IF stock_return.n = None THEN 999
        ELSE IF at = {} THEN 999
        ELSE LET me == CHOOSE k \in at : TRUE
             IN  1 + Cardinality({k \in 1..Len(returns_list) :
                        \/ RLt(stock_return, returns_list[k].r)
                        \/ (k < me /\ ~RLt(returns_list[k].r, stock_return))})

\* RS_CONFIG['volatility_period'] (60) and ['trend_strength_period'] (126),
\* and the periods 21, 63, 126, 252 of the four return columns, scaled down
\* with the length of the modelled price histories
volatility_period == 2
trend_strength_period == 3
return_periods ==
    [return_1m |-> 1, return_3m |-> 2, return_6m |-> 3, return_12m |-> 4]

RSub(x, y) == Rat(x.n * y.d - y.n * x.d, x.d * y.d)
RMul(x, y) == Rat(x.n * y.n, x.d * y.d)
RECURSIVE RSum(_, _)
RSum(s, n) == IF n = 0 THEN RInt(0) ELSE RAdd(RSum(s, n - 1), s[n])
RECURSIVE Sum(_, _)
Sum(f, n) == IF n = 0 THEN 0 ELSE Sum(f, n - 1) + f[n]
LastOf(s, n) == SubSeq(s, Len(s) - n + 1, Len(s))

\* Series.std() (ddof = 1) squared, of n returns none of which is NaN: NaN
\* when one is infinite or n = 1
SampleVariance(s) ==
    LET n == Len(s)
        total == RSum(s, n)
        squares == RSum([i \in 1..n |-> RMul(s[i], s[i])], n)
    IN  IF n < 2 \/ \E i \in 1..n : s[i].n = Inf THEN RNaN
        ELSE LET dev == RSub(squares, Rat(RMul(total, total).n,
                                          RMul(total, total).d * n))
             IN  Rat(dev.n, dev.d * (n - 1))

\* A slip: too few returns give a volatility of 0, not NaN
calc_volatility_ZeroDefault(ret, symbol) ==
    IF symbol \notin DOMAIN ret THEN RNaN
    ELSE LET rets == SelectSeq(ret[symbol], LAMBDA r : ~RIsNaN(r))
         IN  IF Len(rets) < volatility_period THEN RInt(0)
             ELSE LET v == SampleVariance(LastOf(rets, volatility_period))
                  IN  IF RIsNaN(v) THEN RNaN ELSE Rat(2520000 * v.n, v.d)

\* _calc_volatility(symbol) = std * sqrt(252) * 100.  The value held is its
\* square, 252 * 100^2 * variance (an exact rational), or NaN.
calc_volatility(ret, symbol) ==
    IF symbol \notin DOMAIN ret THEN RNaN
    ELSE LET rets == SelectSeq(ret[symbol], LAMBDA r : ~RIsNaN(r))
         IN  IF Len(rets) < volatility_period THEN RNaN
             ELSE LET v == SampleVariance(LastOf(rets, volatility_period))
                  IN  IF RIsNaN(v) THEN RNaN ELSE Rat(2520000 * v.n, v.d)

\* _calc_trend_strength(symbol): 100 * R^2 of the least-squares line through
\* the last closes, in hundredths.  With t = 0..n-1 and p the closes,
\* R^2 = (n*Stp - St*Sp)^2 / ((n*Stt - St^2) * (n*Spp - Sp^2)); ss_tot > 0
\* is n*Spp - Sp^2 > 0.  A NaN close makes polyfit raise, or makes ss_tot
\* NaN: 0 either way.
calc_trend_strength(pd, symbol) ==
    IF symbol \notin Keys(pd) \/ FrameOf(pd, symbol).none THEN RInt(0)
    ELSE LET c == FrameOf(pd, symbol).Close
             n == trend_strength_period
         IN  IF Len(c) < n THEN RInt(0)
             ELSE LET prices == LastOf(c, n)
                      St == Sum([i \in 1..n |-> i - 1], n)
                      Stt == Sum([i \in 1..n |-> (i - 1) * (i - 1)], n)
                      Sp == Sum(prices, n)
                      Spp == Sum([i \in 1..n |-> prices[i] * prices[i]], n)
                      Stp == Sum([i \in 1..n |-> (i - 1) * prices[i]], n)
                      cov == n * Stp - St * Sp
                      ss_tot == n * Spp - Sp * Sp
                  IN  IF \E i \in 1..n : prices[i] = NaN THEN RInt(0)
                      ELSE IF ss_tot > 0
                      THEN LET r_squared == Rat(cov * cov, (n * Stt - St * St) * ss_tot)
                           IN  Rat(Pct(100) * r_squared.n, r_squared.d)
                      ELSE RInt(0)

\* calculate_rs_metrics(): one row per key of price_data (no benchmark)
calculate_rs_metrics(pd, ret) ==
    [k \in 1..Len(pd) |->
        [symbol |-> pd[k].symbol,
         rs_percentile |-> calc_rs_percentile(pd, ret, pd[k].symbol),
         rs_rank |-> calc_rs_rank(pd, ret, pd[k].symbol),
         return_1m |-> calc_period_return(pd, pd[k].symbol,
                                          return_periods.return_1m, 0),
         return_3m |-> calc_period_return(pd, pd[k].symbol,
                                          return_periods.return_3m, 0),
         return_6m |-> calc_period_return(pd, pd[k].symbol,
                                          return_periods.return_6m, 0),
         return_12m |-> calc_period_return(pd, pd[k].symbol,
                                           return_periods.return_12m, 0),
         volatility |-> calc_volatility(ret, pd[k].symbol),
         trend_strength |-> calc_trend_strength(pd, pd[k].symbol)]]

(***************************************************************************)
(* Inputs of the relative-strength engine                                  *)
(***************************************************************************)
MaxUniverse == 3
\* A history of n closes, all 100 but the two the lookback window reads
History(n, start_price, end_price) ==
    [i \in 1..n |->
        IF i = n - skip_recent_days - lookback_period THEN start_price
        ELSE IF i = n - skip_recent_days THEN end_price
        ELSE 100]
Window == lookback_period + skip_recent_days
RSFrames ==
    {NoneFrame}
    \cup {Frame(History(n, 100, 100), TRUE, [i \in 1..n |-> 1000], 0) :
            n \in {0, Window - 1, Window}}
    \cup {Frame(History(Window + 1, e[1], e[2]), TRUE,
                 [i \in 1..(Window + 1) |-> 1000], 0) :
            e \in {<<NaN, 100>>, <<0, 100>>, <<100, NaN>>, <<100, 0>>,
                    <<100, 50>>, <<100, 100>>, <<100, 150>>}}
    \cup {Frame(History(Window + 2, e[1], e[2]), TRUE,
                 [i \in 1..(Window + 2) |-> 1000], 0) :
            e \in {<<100, 100>>, <<100, 150>>}}
    \cup {Frame([i \in 1..(Window + 1) |-> IF i = Window + 1 THEN 150 ELSE 100],
                 TRUE, [i \in 1..(Window + 1) |-> 1000], 0)}
\* the frames of the symbols after the third: none, too short, and a tie
RSFramesSmall ==
    {NoneFrame,
     Frame(History(Window - 1, 100, 100), TRUE, [i \in 1..(Window - 1) |-> 1000], 0),
     Frame(History(Window + 1, 100, 150), TRUE, [i \in 1..(Window + 1) |-> 1000], 0)}
\* the first three symbols take any frame, the symbols after them the small set
Universes(max) ==
    UNION {{[k \in 1..n |-> [symbol |-> Symbols[k], df |-> f[k]]] :
                f \in {f \in [1..n -> RSFrames] :
                          \A k \in 1..n : k > 3 => f[k] \in RSFramesSmall}} :
           n \in 1..max}


\* RSCalculator(price_data): the state after __init__
InitRS ==
    /\ pc = "start"
    /\ price_data \in Universes(MaxUniverse)
    /\ pad \in BOOLEAN
    /\ returns = calculate_all_returns(price_data, pad)
    /\ rs_results = <<>>
    /\ RSCallIdle
    /\ ScreenIdle /\ QualityIdle /\ ValidatorIdle
    /\ CollaboratorsIdle

\* RSCalculator.calculate_rs_metrics()
CalculateRSMetrics ==
    /\ pc = "start"
    /\ rs_results' = calculate_rs_metrics(price_data, returns)
    /\ pc' = "rs_done"
    /\ UNCHANGED <<price_data, returns, period_args, period_return>>
    /\ UNCHANGED <<screenVars, qualityVars, pad, validatorVars, collaboratorVars>>

NextRS == CalculateRSMetrics
SpecRS == InitRS /\ [][NextRS]_vars

(***************************************************************************)
(* One call of RSCalculator._calc_period_return                            *)
(***************************************************************************)
MaxCloses == 4
ReturnCloses == UNION {[1..n -> {NaN, 0, 100, 150}] : n \in 0..MaxCloses}
\* price_data with the one symbol "AAA": its frame None or any closes
ReturnUniverses ==
    {<<[symbol |-> "AAA", df |-> NoneFrame]>>}
    \cup {<<[symbol |-> "AAA",
             df |-> Frame(c, TRUE, [i \in 1..Len(c) |-> 1000], 0)]>> :
            c \in ReturnCloses}

\* RSCalculator(price_data), before a call of _calc_period_return for a
\* symbol of price_data or one that is not in it
InitReturn ==
    /\ pc = "start"
    /\ price_data \in ReturnUniverses
    /\ pad \in BOOLEAN
    /\ returns = calculate_all_returns(price_data, pad)
    /\ rs_results = <<>>
    /\ period_args \in [symbol : {"AAA", "BBB"}, period : 1..2, skip_recent : 0..1]
    /\ period_return = NoReturn
    /\ ScreenIdle /\ QualityIdle /\ ValidatorIdle
    /\ CollaboratorsIdle

\* self._calc_period_return(symbol, period, skip_recent)
CalcPeriodReturn ==
    /\ pc = "start"
    /\ period_return' = calc_period_return(price_data, period_args.symbol,
                                           period_args.period,
                                           period_args.skip_recent)
    /\ pc' = "return_done"
    /\ UNCHANGED <<price_data, returns, rs_results, period_args>>
    /\ UNCHANGED <<screenVars, qualityVars, pad, validatorVars, collaboratorVars>>

NextReturn == CalcPeriodReturn
SpecReturn == InitReturn /\ [][NextReturn]_vars

(***************************************************************************)
(* data_validator.py : DataValidator.validate_price_data                   *)
(***************************************************************************)
NaNCount(c) == Cardinality({i \in 1..Len(c) : c[i] = NaN})
\* (returns.abs() > 0.50).any(): NaN compares False, inf compares True
Extreme(r) == ~RIsNaN(r) /\ (r.n = Inf \/ 2 * Abs(r.n) > r.d)
AnyExtreme(c, padding) ==
    LET r == pct_change(c, padding) IN \E i \in 1..Len(c) : Extreme(r[i])
AllNaN(c) == \A i \in 1..Len(c) : c[i] = NaN

\* A slip: no `continue`, so every check runs and the last failing one
\* overwrites the reason
price_issue_LastWins(f, days, padding) ==
    IF f.none \/ IsEmpty(f) THEN "No price data available"
    ELSE IF ~f.has_volume \/ AllNaN(f.Volume) THEN "Missing volume data"
    ELSE IF f.days_old > 7 THEN "Stale data"
    ELSE IF AnyExtreme(f.Close, padding) THEN "Extreme price movements detected"
    ELSE IF NaNCount(f.Close) * 100 > 5 * Len(f.Close)
    THEN "Too many missing values"
    ELSE IF Len(f.Close) < days THEN "Insufficient data"
    ELSE "ok"

\* A slip: data exactly 7 days old already counted stale
price_issue_StaleAtSeven(f, days, padding) ==
    IF f.none \/ IsEmpty(f) THEN "No price data available"
    ELSE IF Len(f.Close) < days THEN "Insufficient data"
    ELSE IF NaNCount(f.Close) * 100 > 5 * Len(f.Close)
    THEN "Too many missing values"
    ELSE IF AnyExtreme(f.Close, padding) THEN "Extreme price movements detected"
    ELSE IF f.days_old >= 7 THEN "Stale data"
    ELSE IF ~f.has_volume \/ AllNaN(f.Volume) THEN "Missing volume data"
    ELSE "ok"

\* The body of the loop for one symbol: the reason stored in issues, or "ok"
\* when the frame reaches valid_data.  missing_pct = NaN count / len * 100.
price_issue(f, days, padding) ==
    IF f.none \/ IsEmpty(f) THEN "No price data available"
    ELSE IF Len(f.Close) < days THEN "Insufficient data"
    ELSE IF NaNCount(f.Close) * 100 > 5 * Len(f.Close)
    THEN "Too many missing values"
    ELSE IF AnyExtreme(f.Close, padding) THEN "Extreme price movements detected"
    ELSE IF f.days_old > 7 THEN "Stale data"
    ELSE IF ~f.has_volume \/ AllNaN(f.Volume) THEN "Missing volume data"
    ELSE "ok"

\* validate_price_data(price_data, min_days) -> (valid_data, issues)
validate_price_data(pd, days, padding) ==
    LET outcome == [k \in 1..Len(pd) |-> price_issue(pd[k].df, days, padding)]
        at(s) == CHOOSE k \in 1..Len(pd) : pd[k].symbol = s
    IN  [valid_data |->
            [s \in {pd[k].symbol : k \in {k \in 1..Len(pd) : outcome[k] = "ok"}}
                |-> pd[at(s)].df],
         issues |->
            [s \in {pd[k].symbol : k \in {k \in 1..Len(pd) : outcome[k] # "ok"}}
                |-> outcome[at(s)]]]

(***************************************************************************)
(* data_validator.py : DataValidator.validate_fundamentals                 *)
(***************************************************************************)
required_fields == <<"roe", "debt_equity", "operating_margin",
                     "current_ratio", "profit_margin", "roa">>

\* The range tests of the issue loop (value < lo or value > hi)
Unrealistic(field, value) ==
    IF field = "roe" THEN value < Pct(-100) \/ value > Pct(200)
    ELSE IF field = "debt_equity" THEN value < 0 \/ value > Pct(10)
    ELSE IF field \in {"operating_margin", "profit_margin"}
    THEN value < Pct(-50) \/ value > Pct(100)
    ELSE IF field = "current_ratio" THEN value < 0 \/ value > Pct(20)
    ELSE IF field = "roa" THEN value < Pct(-50) \/ value > Pct(100)
    ELSE FALSE

\* A slip: the upper bounds exclusive
InRange_Exclusive(field, value) ==
    IF field = "roe" THEN Pct(-100) <= value /\ value < Pct(200)
    ELSE IF field = "debt_equity" THEN 0 <= value /\ value < Pct(10)
    ELSE IF field \in {"operating_margin", "profit_margin"}
    THEN Pct(-50) <= value /\ value < Pct(100)
    ELSE IF field = "current_ratio" THEN 0 <= value /\ value < Pct(20)
    ELSE IF field = "roa" THEN Pct(-50) <= value /\ value < Pct(100)
    ELSE FALSE

\* The range tests of count_valid_metrics (lo <= value <= hi)
InRange(field, value) ==
    IF field = "roe" THEN Pct(-100) <= value /\ value <= Pct(200)
    ELSE IF field = "debt_equity" THEN 0 <= value /\ value <= Pct(10)
    ELSE IF field \in {"operating_margin", "profit_margin"}
    THEN Pct(-50) <= value /\ value <= Pct(100)
    ELSE IF field = "current_ratio" THEN 0 <= value /\ value <= Pct(20)
    ELSE IF field = "roa" THEN Pct(-50) <= value /\ value <= Pct(100)
    ELSE FALSE

missing_fields(row) ==
    SelectSeq(required_fields, LAMBDA field : row[field] = NaN)
invalid_fields(row) ==
    SelectSeq([k \in 1..Len(required_fields) |->
                  [field |-> required_fields[k], value |-> row[required_fields[k]]]],
              LAMBDA e : e.value # NaN /\ Unrealistic(e.field, e.value))

\* issues_by_stock: only the rows with something missing or invalid
fundamentals_issues(t) ==
    [s \in {t[k].symbol : k \in {k \in 1..Len(t) :
                Len(missing_fields(t[k])) > 0 \/ Len(invalid_fields(t[k])) > 0}} |->
        LET row == t[CHOOSE k \in 1..Len(t) : t[k].symbol = s]
        IN  [Missing |-> missing_fields(row), Invalid |-> invalid_fields(row)]]

count_valid_metrics(row) ==
    Cardinality({k \in 1..Len(required_fields) :
        row[required_fields[k]] # NaN
        /\ InRange(required_fields[k], row[required_fields[k]])})

\* fundamentals_df['valid_metric_count'] = ... : the new column is written
\* into the caller's table
with_valid_metric_count(t) ==
    [k \in 1..Len(t) |->
        [valid_metric_count |-> count_valid_metrics(t[k])] @@ t[k]]

\* A slip: strictly more than 4 valid metrics required
valid_subset_MoreThanFour(t) ==
    SelectSeq(t, LAMBDA row : row.valid_metric_count > 4)

\* fundamentals_df[fundamentals_df['valid_metric_count'] >= 4].copy()
valid_subset(t) == SelectSeq(t, LAMBDA row : row.valid_metric_count >= 4)

(***************************************************************************)
(* data_validator.py : DataValidator.validate_rs_results                   *)
(***************************************************************************)
\* A row of rs_df is a function on the columns of the table, so that
\* `'volatility' in row` is "volatility" \in DOMAIN row.

\* A slip: a volatility of exactly 150 already counted extreme
rs_issue_ExtremeAt150(row) ==
    IF "rs_percentile" \in DOMAIN row
    THEN IF row.rs_percentile = NaN \/ row.rs_percentile < 0
               \/ row.rs_percentile > Pct(100)
         THEN "Invalid RS percentile"
         ELSE IF "volatility" \in DOMAIN row /\ row.volatility # NaN
                    /\ row.volatility >= Pct(150)
         THEN "Extreme volatility"
         ELSE "ok"
    ELSE "Missing RS percentile"

\* The body of the loop for one row: the reason stored in issues, or "ok"
rs_issue(row) ==
    IF "rs_percentile" \in DOMAIN row
    THEN IF row.rs_percentile = NaN \/ row.rs_percentile < 0
               \/ row.rs_percentile > Pct(100)
         THEN "Invalid RS percentile"
         ELSE IF "volatility" \in DOMAIN row /\ row.volatility # NaN
                    /\ row.volatility > Pct(150)
         THEN "Extreme volatility"
         ELSE "ok"
    ELSE "Missing RS percentile"

\* validate_rs_results(rs_df) -> (valid_df, issues).  A later row of the same
\* symbol overwrites the reason of an earlier one.
validate_rs_results(t) ==
    LET flagged == {k \in 1..Len(t) : rs_issue(t[k]) # "ok"}
        last(s) == CHOOSE k \in flagged :
                      t[k].symbol = s
                      /\ \A j \in flagged : t[j].symbol = s => j <= k
        found == [s \in {t[k].symbol : k \in flagged} |-> rs_issue(t[last(s)])]
    IN  [valid_df |-> SelectSeq(t, LAMBDA row : row.symbol \notin DOMAIN found),
         issues |-> found]

(***************************************************************************)
(* Inputs of the validator                                                 *)
(***************************************************************************)
MaxTail == 3
CloseVals == {NaN, 100, 160}
\* closes: a run of equal closes followed by up to MaxTail free closes
Tails(max) == UNION {[1..n -> CloseVals] : n \in 0..max}
Closes(max) == {[i \in 1..k |-> 100] \o t : k \in {0, 18, 20}, t \in Tails(max)}
ClosesSmall ==
    {<<100, 160>>, <<100, 100, 100>>, [i \in 1..20 |-> 100],
     [i \in 1..20 |-> 100] \o <<NaN>>, [i \in 1..20 |-> 100] \o <<NaN, NaN>>,
     [i \in 1..20 |-> 100] \o <<160>>}
VolumeOf(kind, n) ==
    IF kind = "present" THEN [i \in 1..n |-> 1000]
    ELSE IF kind = "partly" THEN [i \in 1..n |-> IF i = 1 THEN NaN ELSE 1000]
    ELSE IF kind = "all missing" THEN [i \in 1..n |-> NaN]
    ELSE <<>>
Conditions ==
    {<<0, "present">>, <<7, "present">>, <<8, "present">>, <<0, "absent">>,
     <<0, "all missing">>, <<0, "partly">>, <<8, "absent">>}
\* every close series with a fresh last bar and a volume column, and a few
\* close series under every condition of age and volume
PriceFrames(max) ==
    {NoneFrame}
    \cup {Frame(c, TRUE, VolumeOf("present", Len(c)), 0) : c \in Closes(max)}
    \cup {Frame(c, x[2] # "absent", VolumeOf(x[2], Len(c)), x[1]) :
            c \in ClosesSmall, x \in Conditions}
PriceFramesSmall ==
    {NoneFrame,
     Frame([i \in 1..20 |-> 100], TRUE, VolumeOf("present", 20), 0),
     Frame([i \in 1..20 |-> 100], TRUE, VolumeOf("present", 20), 30),
     Frame(<<100, 160>>, FALSE, <<>>, 30)}
\* the first symbol's frame is any of PriceFrames, the second's any of the
\* small set, the others' a missing or a passing frame
PriceMaps(max) ==
    UNION {{[k \in 1..n |-> [symbol |-> Symbols[k],
                             df |-> IF k = 1 THEN first ELSE rest[k]]] :
                first \in PriceFrames(MaxTail),
                rest \in {r \in [2..n -> PriceFramesSmall] :
                            \A k \in 3..n : r[k].none \/ r[k].days_old = 0}} :
           n \in 1..max}

FundRows(s) ==
    {FundRow(s, roe, de, om, cr, pm, roa) :
        roe \in {NaN, -10001, -10000, 20000, 20001},
        de \in {NaN, -1, 0, 1001},
        om \in {NaN, 10000, 10001},
        cr \in {NaN, 2000, 2001},
        pm \in {NaN, 10000, 10001},
        roa \in {NaN, 10000, 10001}}
FundRowsSmall(s) ==
    {FundRow(s, 1500, 50, 1200, 150, 800, 600),
     FundRow(s, 1500, 50, 1200, 150, NaN, NaN),
     FundRow(s, 1500, 50, 1200, NaN, NaN, NaN),
     FundRow(s, 1500, 50, 1200, 9999, 10001, 10001)}
FundTables(max) ==
    {<<r>> : r \in FundRows(Symbols[1])}
    \cup UNION {{t \in [1..n -> UNION {FundRowsSmall(Symbols[k]) : k \in 1..n}] :
                    \A k \in 1..n : t[k].symbol = Symbols[k]} : n \in 2..max}

(***************************************************************************)
(* Specifications of the validator                                         *)
(***************************************************************************)
InitPrice ==
    /\ pc = "start"
    /\ pad \in BOOLEAN
    /\ price_data \in PriceMaps(MaxUniverse)
    /\ min_days \in {3, 20}
    /\ returns = <<>> /\ rs_results = <<>> /\ RSCallIdle
    /\ valid_data = <<>> /\ issues = <<>>
    /\ valid_df = <<>> /\ issues_by_stock = <<>> /\ validation_results = <<>>
    /\ RSCheckIdle
    /\ ScreenIdle /\ QualityIdle
    /\ CollaboratorsIdle

\* DataValidator().validate_price_data(price_data, min_days)
ValidatePriceData ==
    /\ pc = "start"
    /\ LET result == validate_price_data(price_data, min_days, pad)
       IN  valid_data' = result.valid_data /\ issues' = result.issues
    /\ pc' = "prices_validated"
    /\ UNCHANGED <<price_data, returns, rs_results, period_args, period_return,
                   pad, min_days, valid_df,
                   issues_by_stock, validation_results, rs_df, rs_valid_df,
                   rs_issues>>
    /\ UNCHANGED <<screenVars, qualityVars, collaboratorVars>>

NextPrice == ValidatePriceData
SpecPrice == InitPrice /\ [][NextPrice]_vars

InitFund ==
    /\ pc = "start"
    /\ fundamentals_df \in FundTables(MaxBatch)
    /\ quality = <<>>
    /\ QualityGateIdle
    /\ ValidatorIdle /\ ScreenIdle /\ RSIdle /\ pad = TRUE
    /\ CollaboratorsIdle

\* DataValidator().validate_fundamentals(fundamentals_df)
ValidateFundamentals ==
    /\ pc = "start"
    /\ issues_by_stock' = fundamentals_issues(fundamentals_df)
    /\ fundamentals_df' = with_valid_metric_count(fundamentals_df)
    /\ valid_df' = valid_subset(with_valid_metric_count(fundamentals_df))
    /\ pc' = "fundamentals_validated"
    /\ UNCHANGED <<quality, gate_args, is_quality, min_days, valid_data, issues,
                   validation_results, rs_df, rs_valid_df, rs_issues, pad>>
    /\ UNCHANGED <<screenVars, rsVars, collaboratorVars>>

NextFund == ValidateFundamentals
SpecFund == InitFund /\ [][NextFund]_vars

\* Tables of RS results: the columns rs_percentile and volatility may be
\* absent from the table; the first row takes any values, the others a few
RSColumns ==
    {{"symbol", "rs_percentile", "volatility"}, {"symbol", "rs_percentile"},
     {"symbol", "volatility"}}
RSRow(cols, s, p, v) ==
    [c \in cols |-> IF c = "symbol" THEN s
                    ELSE IF c = "rs_percentile" THEN p ELSE v]
RSCells ==
    {<<p, v>> : p \in {NaN, -1, 0, 5000, Pct(100), Pct(100) + 1},
                v \in {NaN, -100, 2500, Pct(150), Pct(150) + 1, Inf}}
RSCellsSmall == {<<5000, 2500>>, <<NaN, 2500>>, <<5000, Pct(150) + 1>>,
                 <<Pct(100) + 1, Pct(150) + 1>>}
RSTables(max) ==
    UNION {{[k \in 1..n |-> RSRow(cols, Symbols[k], c[k][1], c[k][2])] :
                c \in {c \in [1..n -> RSCells] :
                          \A k \in 2..n : c[k] \in RSCellsSmall}} :
           n \in 1..max, cols \in RSColumns}

InitRSCheck ==
    /\ pc = "start"
    /\ rs_df \in RSTables(MaxBatch)
    /\ rs_valid_df = <<>> /\ rs_issues = <<>>
    /\ min_days = 0 /\ valid_data = <<>> /\ issues = <<>>
    /\ valid_df = <<>> /\ issues_by_stock = <<>> /\ validation_results = <<>>
    /\ ScreenIdle /\ QualityIdle /\ RSIdle /\ pad = TRUE
    /\ CollaboratorsIdle

\* DataValidator().validate_rs_results(rs_df)
ValidateRSResults ==
    /\ pc = "start"
    /\ LET result == validate_rs_results(rs_df)
       IN  rs_valid_df' = result.valid_df /\ rs_issues' = result.issues
    /\ pc' = "rs_validated"
    /\ UNCHANGED <<rs_df, min_days, valid_data, issues, valid_df,
                   issues_by_stock, validation_results>>
    /\ UNCHANGED <<screenVars, qualityVars, rsVars, pad, collaboratorVars>>

NextRSCheck == ValidateRSResults
SpecRSCheck == InitRSCheck /\ [][NextRSCheck]_vars

(***************************************************************************)
(* Specifications of the screening engine                                  *)
(***************************************************************************)
InitScore ==
    /\ pc = "start"
    /\ params \in ScoreParams
    /\ df \in ScoreTables(params)
    /\ filtered = NotRun
    /\ scored = <<>> /\ rescored = <<>>
    /\ QualityIdle /\ RSIdle /\ ValidatorIdle /\ pad = TRUE
    /\ CollaboratorsIdle

\* ScreenerEngine(params).calculate_composite_scores(df)
CalculateCompositeScores ==
    /\ pc = "start"
    /\ scored' \in SortResults(WithScores(params, df))
    /\ pc' = "scored"
    /\ UNCHANGED <<params, df, filtered, rescored>>
    /\ UNCHANGED <<qualityVars, rsVars, pad, validatorVars, collaboratorVars>>

NextScore == CalculateCompositeScores
SpecScore == InitScore /\ [][NextScore]_vars

InitFilter ==
    /\ pc = "start"
    /\ params \in FilterParams
    /\ df \in FilterTables(MaxBatch)
    /\ filtered = NotRun
    /\ scored = <<>> /\ rescored = <<>>
    /\ QualityIdle /\ RSIdle /\ ValidatorIdle /\ pad = TRUE
    /\ CollaboratorsIdle

\* ScreenerEngine(params).apply_filters(df)
ApplyFilters ==
    /\ pc = "start"
    /\ filtered' = apply_filters(params, df)
    /\ pc' = "filtered"
    /\ UNCHANGED <<params, df, scored, rescored>>
    /\ UNCHANGED <<qualityVars, rsVars, pad, validatorVars, collaboratorVars>>

NextFilter == ApplyFilters
SpecFilter == InitFilter /\ [][NextFilter]_vars

\* Scoring twice: tables of up to three rows
InitRescore ==
    /\ pc = "start"
    /\ params \in ScoreParams
    /\ df \in {t \in ScoreTables(params) : Len(t) <= 3}
    /\ filtered = NotRun
    /\ scored = <<>> /\ rescored = <<>>
    /\ QualityIdle /\ RSIdle /\ ValidatorIdle /\ pad = TRUE
    /\ CollaboratorsIdle

\* engine.calculate_composite_scores(scored): the output scored again
Rescore ==
    /\ pc = "scored"
    /\ rescored' \in SortResults(WithScores(params, scored))
    /\ pc' = "rescored"
    /\ UNCHANGED <<params, df, filtered, scored>>
    /\ UNCHANGED <<qualityVars, rsVars, pad, validatorVars, collaboratorVars>>

\* engine.calculate_composite_scores(df): a second run on the same input
ScoreAgain ==
    /\ pc = "scored"
    /\ rescored' \in SortResults(WithScores(params, df))
    /\ pc' = "scored_again"
    /\ UNCHANGED <<params, df, filtered, scored>>
    /\ UNCHANGED <<qualityVars, rsVars, pad, validatorVars, collaboratorVars>>

NextRescore == CalculateCompositeScores \/ Rescore \/ ScoreAgain
SpecRescore == InitRescore /\ [][NextRescore]_vars

(***************************************************************************)
(* cache_manager.py : CacheManager                                         *)
(*                                                                         *)
(* Time is the wall clock in whole seconds.  A key is the pair of the      *)
(* prefix and the canonical (sorted-keys) JSON text of the parameters: the *)
(* 8 hex digits of the md5 digest the code takes of that text are assumed  *)
(* to differ for the few parameter sets of the model.  A file of the cache *)
(* directory holds a pickled cache_data, or bytes that do not unpickle     *)
(* (what an interrupted pickle.dump leaves behind).                        *)
(***************************************************************************)
prices_ttl == 3600
fundamentals_ttl == 86400
screening_ttl == 1800

\* what get returns: None, or the cached data
CacheMiss == [none |-> TRUE]
Hit(data) == [none |-> FALSE, data |-> data]
\* a file whose bytes pickle.load rejects
Corrupt == [corrupt |-> TRUE]

Remove(f, k) == [x \in DOMAIN f \ {k} |-> f[x]]
Put(f, k, v) == (k :> v) @@ f

\* sorted(symbols): the symbols in ascending order
SymbolIndex(s) == CHOOSE i \in 1..Len(Symbols) : Symbols[i] = s
RECURSIVE Insert(_, _)
Insert(x, s) ==
    IF s = <<>> THEN <<x>>
    ELSE IF SymbolIndex(x) <= SymbolIndex(Head(s)) THEN <<x>> \o s
    ELSE <<Head(s)>> \o Insert(x, Tail(s))
RECURSIVE sorted(_)
sorted(symbols) ==
    IF symbols = <<>> THEN <<>>
    ELSE Insert(Head(symbols), sorted(Tail(symbols)))

generate_key(prefix, p) == [prefix |-> prefix, params |-> p]

is_cache_valid_Inclusive(cache_data, ttl) ==
    /\ "timestamp" \in DOMAIN cache_data
    /\ now - cache_data.timestamp <= ttl

is_cache_valid(cache_data, ttl) ==
    /\ "timestamp" \in DOMAIN cache_data
    /\ now - cache_data.timestamp < ttl

\* The CacheManager object: its memory store and the files of its directory
cache == [memory_cache |-> memory_cache, files |-> file_cache]

\* self.get(key, ttl): the value returned and the object after the call
get_Refreshing(self, key, ttl) ==
    LET hit == key \in DOMAIN self.memory_cache
        expired == hit /\ ~is_cache_valid(self.memory_cache[key], ttl)
        memory == IF expired THEN Remove(self.memory_cache, key)
                  ELSE self.memory_cache
    IN  IF hit /\ ~expired
        THEN [result |-> Hit(self.memory_cache[key].data), self |-> self]
        ELSE IF key \notin DOMAIN self.files \/ self.files[key] = Corrupt
        THEN [result |-> CacheMiss,
              self |-> [memory_cache |-> memory, files |-> self.files]]
        ELSE IF is_cache_valid(self.files[key], ttl)
        THEN [result |-> Hit(self.files[key].data),
              self |-> [memory_cache |->
                            Put(memory, key,
                                [self.files[key] EXCEPT !.timestamp = now]),
                        files |-> self.files]]
        ELSE [result |-> CacheMiss,
              self |-> [memory_cache |-> memory,
                        files |-> Remove(self.files, key)]]

get(self, key, ttl) ==
    LET hit == key \in DOMAIN self.memory_cache
        expired == hit /\ ~is_cache_valid(self.memory_cache[key], ttl)
        memory == IF expired THEN Remove(self.memory_cache, key)
                  ELSE self.memory_cache
    IN  IF hit /\ ~expired
        THEN [result |-> Hit(self.memory_cache[key].data), self |-> self]
        ELSE IF key \notin DOMAIN self.files \/ self.files[key] = Corrupt
        THEN \* no file, or pickle.load raised: the except branch returns None
             [result |-> CacheMiss,
              self |-> [memory_cache |-> memory, files |-> self.files]]
        ELSE IF is_cache_valid(self.files[key], ttl)
        THEN [result |-> Hit(self.files[key].data),
              self |-> [memory_cache |-> Put(memory, key, self.files[key]),
                        files |-> self.files]]
        ELSE [result |-> CacheMiss,
              self |-> [memory_cache |-> memory,
                        files |-> Remove(self.files, key)]]

\* how the file write of set ends: the dump completes, open() raises and
\* the old file stays, or the dump raises and leaves a truncated file
WriteOutcomes == {"stored", "open_failed", "dump_failed"}

\* self.set(key, data): the value returned and the object after the call
set(self, key, data, outcome) ==
    LET cache_data == [data |-> data, timestamp |-> now, key |-> key]
    IN  [result |-> outcome = "stored",
         self |-> [memory_cache |-> Put(self.memory_cache, key, cache_data),
                   files |-> IF outcome = "stored"
                             THEN Put(self.files, key, cache_data)
                             ELSE IF outcome = "dump_failed"
                             THEN Put(self.files, key, Corrupt)
                             ELSE self.files]]

\* self.invalidate(key)
invalidate(self, key) ==
    [result |-> key \in DOMAIN self.files,
     self |-> [memory_cache |-> Remove(self.memory_cache, key),
               files |-> Remove(self.files, key)]]

\* the keys of the category wrappers
price_key(symbols, lookback) ==
    generate_key("prices", [symbols |-> sorted(symbols), lookback |-> lookback])
fundamentals_key(symbols) ==
    generate_key("fundamentals", [symbols |-> sorted(symbols)])
screening_key(p) == generate_key("screening", p)

\* What a call is about, whatever the order its symbols were given in
Members(symbols) == {symbols[i] : i \in 1..Len(symbols)}
PriceSubject(symbols, lookback) ==
    [prefix |-> "prices", symbols |-> Members(symbols),
     lookback |-> lookback]
FundamentalsSubject(symbols) ==
    [prefix |-> "fundamentals", symbols |-> Members(symbols)]
ScreeningSubject(p) == [prefix |-> "screening", params |-> p]

\* One call of get through a wrapper, with the arguments args; promoted
\* tells that the data came from the file store
CacheGet(subject, args, key, ttl) ==
    LET r == get(cache, key, ttl)
    IN  /\ memory_cache' = r.self.memory_cache
        /\ file_cache' = r.self.files
        /\ cache_call' = [op |-> "get", at |-> now, subject |-> subject,
                          args |-> args, key |-> key, ttl |-> ttl,
                          promoted |-> /\ key \notin DOMAIN memory_cache
                                       /\ r.result # CacheMiss,
                          result |-> r.result]
        /\ UNCHANGED <<now, set_log>>

\* One call of set through a wrapper
CacheSet(subject, args, key, data, outcome) ==
    LET r == set(cache, key, data, outcome)
    IN  /\ memory_cache' = r.self.memory_cache
        /\ file_cache' = r.self.files
        /\ cache_call' = [op |-> "set", at |-> now, subject |-> subject,
                          args |-> args, key |-> key, data |-> data,
                          result |-> r.result]
        /\ set_log' = Put(set_log, subject,
                          [data |-> data, timestamp |-> now, args |-> args,
                           key |-> key, returned |-> r.result])
        /\ UNCHANGED now

\* the inputs of the cache calls
CacheData == {"d1", "d2"}
\* the data cached for a list of symbols and the ways its write may end: a
\* second key gets one value and is written in full
DataFor(symbols) == IF Len(symbols) = 1 THEN {"d1"} ELSE CacheData
OutcomesFor(symbols) == IF Len(symbols) = 1 THEN {"stored"} ELSE WriteOutcomes
SymbolLists == {<<"AAA", "BBB">>, <<"BBB", "AAA">>, <<"CCC">>}
SymbolListsSmall == {<<"AAA", "BBB">>, <<"BBB", "AAA">>}
Lookbacks == {365}
ScreeningParams == {[strategy |-> "Pure RS", rs_threshold |-> Pct(80)]}
Instants == {0, 1, screening_ttl, prices_ttl, fundamentals_ttl}

\* The operations on one key touch no other key, and clear_all and a new
\* process treat every key alike: a run follows the entries of one category,
\* the one pc names
Categories == {"prices", "fundamentals", "screening"}

otherVars == <<pc, screenVars, qualityVars, rsVars, pad, validatorVars,
               fetcherVars, aiVars>>

GetPriceData ==
    /\ pc = "prices"
    /\ \E symbols \in SymbolLists, lookback \in Lookbacks :
        /\ CacheGet(PriceSubject(symbols, lookback), <<symbols, lookback>>,
                    price_key(symbols, lookback), prices_ttl)
        /\ UNCHANGED otherVars

SetPriceData ==
    /\ pc = "prices"
    /\ \E symbols \in SymbolLists, lookback \in Lookbacks :
       \E data \in DataFor(symbols), outcome \in OutcomesFor(symbols) :
        /\ CacheSet(PriceSubject(symbols, lookback), <<symbols, lookback>>,
                    price_key(symbols, lookback), data, outcome)
        /\ UNCHANGED otherVars

GetFundamentals ==
    /\ pc = "fundamentals"
    /\ \E symbols \in SymbolListsSmall :
        /\ CacheGet(FundamentalsSubject(symbols), <<symbols>>,
                    fundamentals_key(symbols), fundamentals_ttl)
        /\ UNCHANGED otherVars

SetFundamentals ==
    /\ pc = "fundamentals"
    /\ \E symbols \in SymbolListsSmall, data \in CacheData,
       outcome \in WriteOutcomes :
        /\ CacheSet(FundamentalsSubject(symbols), <<symbols>>,
                    fundamentals_key(symbols), data, outcome)
        /\ UNCHANGED otherVars

GetScreeningResults ==
    /\ pc = "screening"
    /\ \E p \in ScreeningParams :
        /\ CacheGet(ScreeningSubject(p), <<p>>, screening_key(p), screening_ttl)
        /\ UNCHANGED otherVars

SetScreeningResults ==
    /\ pc = "screening"
    /\ \E p \in ScreeningParams, data \in CacheData, outcome \in WriteOutcomes :
        /\ CacheSet(ScreeningSubject(p), <<p>>, screening_key(p), data, outcome)
        /\ UNCHANGED otherVars

\* cache.invalidate(key) for a key that was used
Invalidate ==
    \E key \in DOMAIN memory_cache \cup DOMAIN file_cache :
        LET r == invalidate(cache, key)
        IN  /\ memory_cache' = r.self.memory_cache
            /\ file_cache' = r.self.files
            /\ cache_call' = [op |-> "invalidate", key |-> key,
                              result |-> r.result]
            /\ set_log' = [s \in {s \in DOMAIN set_log : set_log[s].key # key}
                              |-> set_log[s]]
            /\ UNCHANGED <<now, otherVars>>

\* cache.clear_all()
ClearAll ==
    /\ memory_cache # <<>> \/ file_cache # <<>>
    /\ memory_cache' = <<>>
    /\ file_cache' = <<>>
    /\ cache_call' = [op |-> "clear_all", result |-> TRUE]
    /\ set_log' = <<>>
    /\ UNCHANGED <<now, otherVars>>

\* The process ends and a new one constructs its CacheManager: the memory
\* store starts empty, the files of the cache directory are still there
Restart ==
    /\ memory_cache # <<>>
    /\ memory_cache' = <<>>
    /\ cache_call' = [op |-> "init"]
    /\ UNCHANGED <<now, file_cache, set_log, otherVars>>

\* The wall clock moves on
Tick ==
    /\ \E t \in Instants : t > now /\ now' = t
    /\ UNCHANGED <<memory_cache, file_cache, cache_call, set_log, otherVars>>

InitCache ==
    /\ pc \in Categories
    /\ CacheIdle
    /\ ScreenIdle /\ QualityIdle /\ RSIdle /\ ValidatorIdle /\ pad = TRUE
    /\ FetcherIdle /\ AIIdle

NextCache ==
    \/ GetPriceData \/ SetPriceData
    \/ GetFundamentals \/ SetFundamentals
    \/ GetScreeningResults \/ SetScreeningResults
    \/ Invalidate \/ ClearAll \/ Restart \/ Tick
SpecCache == InitCache /\ [][NextCache]_vars

(***************************************************************************)
(* data_fetcher.py : DataFetcher.fetch_historical_prices                   *)
(*                                                                         *)
(* The upstream sources (Breeze, yfinance) deliver a frame for some of the *)
(* symbols asked for, and any frame; the call is one step of the clock.    *)
(***************************************************************************)
get_price_data(self, symbols, lookback) ==
    get(self, price_key(symbols, lookback), prices_ttl)
set_price_data(self, symbols, lookback, data, outcome) ==
    set(self, price_key(symbols, lookback), data, outcome)

\* [s for s in symbols if s not in price_data]
missing_symbols(symbols, pd) == SelectSeq(symbols, LAMBDA s : s \notin Keys(pd))

\* `cached_data is not None`
is_hit_Truthy(cached_data) == cached_data # CacheMiss /\ cached_data.data # <<>>

is_hit(cached_data) == cached_data # CacheMiss

\* fetch_historical_prices(symbols, period_days), given what Breeze and then
\* yfinance deliver and how the file write of the cache ends: the map
\* returned, the cache object after the call, and what was fetched
fetch_historical_prices_CacheRaw(self, symbols, period_days, breeze_data, yf_data, outcome) ==
    LET cached == get_price_data(self, symbols, period_days)
        fetched_data == breeze_data \o yf_data
        v == validate_price_data(fetched_data, period_days, pad)
        raw == [s \in Keys(fetched_data) |->
                    fetched_data[CHOOSE k \in 1..Len(fetched_data) :
                                    fetched_data[k].symbol = s].df]
        stored == set_price_data(cached.self, symbols, period_days, raw,
                                 outcome)
    IN  IF is_hit(cached.result)
        THEN [result |-> cached.result.data, self |-> cached.self,
              fetched |-> FALSE, price_data |-> <<>>]
        ELSE [result |-> v.valid_data, self |-> stored.self,
              fetched |-> TRUE, price_data |-> fetched_data]

fetch_historical_prices(self, symbols, period_days, breeze_data, yf_data, outcome) ==
    LET cached == get_price_data(self, symbols, period_days)
        fetched_data == breeze_data \o yf_data
        v == validate_price_data(fetched_data, period_days, pad)
        stored == set_price_data(cached.self, symbols, period_days,
                                 v.valid_data, outcome)
    IN  IF is_hit(cached.result)
        THEN [result |-> cached.result.data, self |-> cached.self,
              fetched |-> FALSE, price_data |-> <<>>]
        ELSE [result |-> v.valid_data, self |-> stored.self,
              fetched |-> TRUE, price_data |-> fetched_data]

\* the inputs: a period of two days, and for each symbol asked for no frame
\* or one of three frames: one that passes validation, one with an extreme
\* move and one that is stale
Periods == {2}
FetchedFrames ==
    {Frame(<<100, 100>>, TRUE, VolumeOf("present", 2), 0),
     Frame(<<100, 160>>, TRUE, VolumeOf("present", 2), 0),
     Frame(<<100, 100>>, TRUE, VolumeOf("present", 2), 8)}
RECURSIVE Fetched(_)
Fetched(symbols) ==
    IF symbols = <<>> THEN {<<>>}
    ELSE LET rest == Fetched(Tail(symbols))
         IN  rest \cup {<<[symbol |-> Head(symbols), df |-> f]>> \o r :
                            f \in FetchedFrames, r \in rest}

NoFetch == [at |-> 0, result |-> <<>>, none |-> TRUE]

FetchHistoricalPrices ==
    /\ pc = "fetching"
    /\ \E symbols \in SymbolListsSmall, period_days \in Periods :
       \* the sources are asked, and the cache written, on a miss only
       LET miss == ~is_hit(get_price_data(cache, symbols, period_days).result)
       IN
       \E breeze_data \in IF miss /\ use_breeze THEN Fetched(symbols)
                           ELSE {<<>>} :
       \E yf_data \in IF miss
                       THEN Fetched(missing_symbols(symbols, breeze_data))
                       ELSE {<<>>},
          outcome \in IF miss THEN WriteOutcomes ELSE {"stored"} :
       \E r \in {fetch_historical_prices(cache, symbols, period_days,
                                          breeze_data, yf_data, outcome)} :
            LET subject == PriceSubject(symbols, period_days)
                this == [at |-> now, result |-> r.result, none |-> FALSE]
            IN  /\ memory_cache' = r.self.memory_cache
                /\ file_cache' = r.self.files
                /\ fetch_call' =
                        [op |-> "fetch_historical_prices", at |-> now,
                         symbols |-> symbols, period_days |-> period_days,
                         key |-> price_key(symbols, period_days),
                         fetched |-> r.fetched,
                         price_data |-> r.price_data,
                         previous |-> IF subject \in DOMAIN fetch_log
                                      THEN fetch_log[subject] ELSE NoFetch,
                         result |-> r.result]
                /\ fetch_log' = IF r.fetched THEN Put(fetch_log, subject, this)
                                ELSE fetch_log
    /\ UNCHANGED <<now, cache_call, set_log, use_breeze, pc, pad, aiVars>>
    /\ UNCHANGED <<screenVars, qualityVars, rsVars, validatorVars>>

InitFetch ==
    /\ pc = "fetching"
    /\ use_breeze \in BOOLEAN
    /\ pad = TRUE
    /\ fetch_call = NoCacheCall /\ fetch_log = <<>>
    /\ CacheIdle /\ AIIdle
    /\ ScreenIdle /\ QualityIdle /\ RSIdle /\ ValidatorIdle

NextFetch == FetchHistoricalPrices \/ Tick
SpecFetch == InitFetch /\ [][NextFetch]_vars

(***************************************************************************)
(* ai_analyzer.py : AIAnalyzer.analyze_top_stocks                          *)
(*                                                                         *)
(* A row is a function on its columns.  What _analyze_stock does for a     *)
(* stock is one of three things: the collaborator answers, the request     *)
(* fails (the text "AI analysis unavailable" is returned), or building the *)
(* prompt raises (the caller's except makes the text "Analysis failed").   *)
(***************************************************************************)
NoKeyText == "AI analysis not available (configure Groq API key)"
\* the missing value a left merge puts in the text column
NoText == "NaN"
AnalysisTexts ==
    {"analysis", "AI analysis unavailable: error", "Analysis failed: error"}

\* df.nlargest(top_n, 'composite_score'): row i comes before row j when its
\* score is larger, the first of equal scores first, missing scores last
ScoreBefore(t, i, j) ==
    IF t[i].composite_score = NaN
    THEN t[j].composite_score = NaN /\ i < j
    ELSE \/ t[j].composite_score = NaN
         \/ t[i].composite_score > t[j].composite_score
         \/ t[i].composite_score = t[j].composite_score /\ i < j
nlargest(t, top_n) ==
    LET before(i) == Cardinality({j \in 1..Len(t) : ScoreBefore(t, j, i)})
        size == IF top_n < Len(t) THEN top_n ELSE Len(t)
    IN  [k \in 1..size |-> t[CHOOSE i \in 1..Len(t) : before(i) = k - 1]]

\* df.merge(analysis_df, on='symbol', how='left'); a frame made from an empty
\* list has no column 'symbol', and merge raises KeyError
RECURSIVE LeftRows(_, _)
LeftRows(left, right) ==
    IF left = <<>> THEN <<>>
    ELSE LET row == Head(left)
             matches == SelectSeq(right, LAMBDA a : a.symbol = row.symbol)
             joined == IF matches = <<>>
                       THEN <<row @@ ("ai_analysis" :> NoText)>>
                       ELSE [k \in 1..Len(matches) |->
                                row @@ ("ai_analysis" :>
                                            matches[k].ai_analysis)]
         IN  joined \o LeftRows(Tail(left), right)
merge_Inner(left, right) ==
    IF right = <<>> THEN [raised |-> TRUE, rows |-> <<>>]
    ELSE [raised |-> FALSE,
          rows |-> SelectSeq(LeftRows(left, right),
                             LAMBDA row : row.ai_analysis # NoText)]

merge(left, right) ==
    IF right = <<>> THEN [raised |-> TRUE, rows |-> <<>>]
    ELSE [raised |-> FALSE, rows |-> LeftRows(left, right)]

\* analyze_top_stocks(df, top_n) with the text _analyze_stock yields for each
\* symbol: what is returned, or that the call raised
analyze_top_stocks(key, t, top_n, text) ==
    IF key = ""
    THEN [raised |-> FALSE,
          rows |-> [k \in 1..Len(t) |-> ("ai_analysis" :> NoKeyText) @@ t[k]]]
    ELSE LET top_stocks == nlargest(t, top_n)
             analyses == [k \in 1..Len(top_stocks) |->
                            [symbol |-> top_stocks[k].symbol,
                             ai_analysis |-> text[top_stocks[k].symbol]]]
         IN  merge(t, analyses)

\* the inputs: scored tables of up to MaxBatch rows with distinct symbols
AIRows(s) ==
    {[symbol |-> s, composite_score |-> c, signal |-> g] :
        c \in {Pct(60), Pct(80)}, g \in {"BUY", "WATCH"}}
AITables ==
    UNION {{t \in [1..n -> UNION {AIRows(Symbols[k]) : k \in 1..n}] :
                \A k \in 1..n : t[k].symbol = Symbols[k]} : n \in 0..MaxBatch}
\* top_n: the app passes 5
TopNs == {1, 5}

InitAI ==
    /\ pc = "start"
    /\ api_key \in {"", "key"}
    /\ ai_df \in AITables
    /\ analyzed = NotRun
    /\ CacheIdle /\ FetcherIdle
    /\ ScreenIdle /\ QualityIdle /\ RSIdle /\ ValidatorIdle /\ pad = TRUE

\* ai_analyzer.analyze_top_stocks(final_results, top_n); without a key the
\* column is added to the caller's table itself
AnalyzeTopStocks ==
    /\ pc = "start"
    /\ \E top_n \in TopNs, text \in [Keys(ai_df) -> AnalysisTexts] :
        /\ analyzed' = analyze_top_stocks(api_key, ai_df, top_n, text)
        /\ ai_df' = IF api_key = "" THEN analyzed'.rows ELSE ai_df
    /\ pc' = "analyzed"
    /\ UNCHANGED <<api_key, cacheVars, fetcherVars, pad>>
    /\ UNCHANGED <<screenVars, qualityVars, rsVars, validatorVars>>

NextAI == AnalyzeTopStocks
SpecAI == InitAI /\ [][NextAI]_vars

(***************************************************************************)
(* Claims about the screening engine                                       *)
(***************************************************************************)
\* composite >= x and composite = x, for a whole number x of the real scale
AtLeast(c, x) == c.n # NaN /\ c.n >= Pct(x) * c.d
Exactly(c, x) == c.n # NaN /\ c.n = Pct(x) * c.d

\* C1: every scored row carries the signal of the first satisfied rule: BUY
\* if composite_score >= 75 and rs_percentile >= 85, else STRONG_WATCH if
\* composite_score >= 70, else WATCH if composite_score >= 60, else AVOID;
\* a row with composite_score exactly 75 and rs_percentile 84.9 is
\* STRONG_WATCH.
C1_SignalRule ==
    pc = "scored" =>
        \A i \in 1..Len(scored) :
            LET r == scored[i]
                c == r.composite_score
                buy == AtLeast(c, 75) /\ r.rs_percentile # NaN
                       /\ r.rs_percentile >= 8500
            IN  /\ buy => r.signal = "BUY"
                /\ ~buy /\ AtLeast(c, 70) => r.signal = "STRONG_WATCH"
                /\ ~buy /\ ~AtLeast(c, 70) /\ AtLeast(c, 60) => r.signal = "WATCH"
                /\ ~buy /\ ~AtLeast(c, 60) => r.signal = "AVOID"
                /\ Exactly(c, 75) /\ r.rs_percentile = 8490
                       => r.signal = "STRONG_WATCH"

\* C1 witness: a scored row with composite_score exactly 75 and
\* rs_percentile 84.9, classified STRONG_WATCH, beside a BUY row.
C1_Witness ==
    /\ pc = "scored"
    /\ \E i \in 1..Len(scored) :
            /\ Exactly(scored[i].composite_score, 75)
            /\ scored[i].rs_percentile = 8490
            /\ scored[i].signal = "STRONG_WATCH"
    /\ \E i \in 1..Len(scored) : scored[i].signal = "BUY"

\* The declared blends, written from the claim.  q0 is quality_score with
\* missing counted as 0; V (or L) is 100 minus the min-max normalisation of
\* the column over the batch, 50 when the cell is missing or the batch has
\* no spread.
DeclaredNorm(col, r) ==
    LET present == {df[k][col] : k \in 1..Len(df)} \ {NaN}
    IN  IF r[col] = NaN THEN RInt(Pct(50))
        ELSE LET lo == CHOOSE v \in present : \A w \in present : v <= w
                 hi == CHOOSE v \in present : \A w \in present : w <= v
             IN  IF lo = hi THEN RInt(Pct(50))
                 ELSE Rat(Pct(100) * (hi - lo) - Pct(100) * (r[col] - lo), hi - lo)

DeclaredBlend(r) ==
    LET strategy == IF "strategy" \in DOMAIN params THEN params.strategy
                    ELSE "RS + Quality"
        rs == RInt(r.rs_percentile)
        q0 == IF r.quality_score = NaN THEN RInt(0) ELSE RInt(r.quality_score)
    IN  CASE strategy = "RS + Quality" ->
                RAdd(RWeight(60, rs), RWeight(40, q0))
          [] strategy = "RS + Value" ->
                RAdd(RWeight(50, rs),
                     RAdd(RWeight(30, DeclaredNorm("pe_ratio", r)), RWeight(20, q0)))
          [] strategy = "RS + Low Volatility" ->
                RAdd(RWeight(50, rs), RWeight(50, DeclaredNorm("volatility", r)))
          [] OTHER -> rs

InPercentRange(v) == v # NaN /\ 0 <= v /\ v <= Pct(100)

\* C2: calculate_composite_scores gives every row of the batch exactly the
\* declared blend of the selected strategy, and the composite_score is in
\* [0,100] whenever rs_percentile and quality_score (missing counted as 0)
\* are, also when the batch has a single row or no spread in P/E or
\* volatility.
C2_DeclaredBlend ==
    pc = "scored" =>
        /\ Len(scored) = Len(df)
        /\ \A k \in 1..Len(df) : \E i \in 1..Len(scored) :
                scored[i].symbol = df[k].symbol
        /\ \A i \in 1..Len(scored) :
                LET r == scored[i]
                IN  /\ REq(r.composite_score, DeclaredBlend(r))
                    /\ (InPercentRange(r.rs_percentile)
                         /\ (r.quality_score = NaN \/ InPercentRange(r.quality_score)))
                        => /\ AtLeast(r.composite_score, 0)
                           /\ ~RIsNaN(r.composite_score)
                           /\ r.composite_score.n <= Pct(100) * r.composite_score.d

\* C2 witness: an 'RS + Value' batch scored with one P/E strictly between the
\* batch minimum and maximum and one quality_score missing.
C2_Witness ==
    /\ pc = "scored"
    /\ "strategy" \in DOMAIN params /\ params.strategy = "RS + Value"
    /\ \E i, j, k \in 1..Len(scored) :
            /\ scored[i].pe_ratio # NaN /\ scored[j].pe_ratio # NaN
            /\ scored[k].pe_ratio # NaN
            /\ scored[i].pe_ratio < scored[j].pe_ratio
            /\ scored[j].pe_ratio < scored[k].pe_ratio
            /\ ~Exactly(scored[j].composite_score, 0)
    /\ \E i \in 1..Len(scored) : scored[i].quality_score = NaN

\* C2, the degenerate batches: a single row, or every P/E equal
C2_WitnessNoSpread ==
    /\ pc = "scored"
    /\ "strategy" \in DOMAIN params /\ params.strategy = "RS + Value"
    /\ Len(scored) = 2
    /\ scored[1].pe_ratio = scored[2].pe_ratio /\ scored[1].pe_ratio # NaN

\* The filters as the claims state them, for a row r under the parameters
SoftFiltersHold(r) ==
    /\ "min_roe" \in DOMAIN params =>
            r.roe = NaN \/ r.roe >= params.min_roe
    /\ "max_de" \in DOMAIN params =>
            r.debt_equity = NaN \/ r.debt_equity <= params.max_de
    /\ "min_margin" \in DOMAIN params =>
            r.operating_margin = NaN \/ r.operating_margin >= params.min_margin
HardFiltersHold(r) ==
    /\ r.rs_percentile # NaN /\ r.rs_percentile >= params.rs_threshold
    /\ r.market_cap # NaN /\ r.market_cap >= params.min_mcap
    /\ r.current_price # NaN
AllParamsGiven == {"rs_threshold", "min_mcap"} \subseteq DOMAIN params

\* C6: for every parameter set, thresholds equal to 0 included, every row
\* returned by apply_filters satisfies the three soft fundamentals filters:
\* roe >= min_roe or roe missing, debt_equity <= max_de or missing,
\* operating_margin >= min_margin or missing.
C6_SoftFilters ==
    (pc = "filtered" /\ ~filtered.raised) =>
        \A i \in 1..Len(filtered.rows) : SoftFiltersHold(filtered.rows[i])

\* C7: for every parameter set, every row returned by apply_filters has
\* rs_percentile present and >= rs_threshold, market_cap present and >=
\* min_mcap, and current_price present; and every input row that satisfies
\* all hard and soft filters is returned.
C7_HardFilters ==
    (pc = "filtered" /\ ~filtered.raised /\ AllParamsGiven) =>
        /\ \A i \in 1..Len(filtered.rows) : HardFiltersHold(filtered.rows[i])
        /\ \A k \in 1..Len(df) :
                (HardFiltersHold(df[k]) /\ SoftFiltersHold(df[k]))
                    => \E i \in 1..Len(filtered.rows) : filtered.rows[i] = df[k]

(***************************************************************************)
(* Claims about the quality engine                                         *)
(***************************************************************************)
MissingMetrics(r) == {k \in 1..Len(Metrics) : r[Metrics[k]] = NaN}
RECURSIVE WeightedSum(_, _, _)
\* sum over the first k metrics of weight * f(metric), in 1/10000
WeightedSum(r, k, neutral) ==
    IF k = 0 THEN 0
    ELSE WeightedSum(r, k - 1, neutral)
         + QUALITY_WEIGHTS[Metrics[k]]
           * (IF r[Metrics[k]] = NaN THEN neutral
              ELSE score_metric(Metrics[k], r[Metrics[k]]))

\* C4: a missing metric contributes the neutral sub-score 0.5 (weight * 0.5,
\* as a present value at the acceptable tier), so a row with missing metrics
\* and every present metric at sub-score 0 scores strictly between 0 and 100.
C4_NeutralImputation ==
    pc = "quality_scored" =>
        \A i \in 1..Len(quality) :
            LET r == quality[i]
            IN  /\ r.quality_score = Min(WeightedSum(r, Len(Metrics), 50), Pct(100))
                /\ (/\ MissingMetrics(r) # {}
                     /\ \A k \in 1..Len(Metrics) :
                            r[Metrics[k]] # NaN
                                => score_metric(Metrics[k], r[Metrics[k]]) = 0)
                    => (0 < r.quality_score /\ r.quality_score < Pct(100))

\* The sub-score of a present value as the claim declares it
DeclaredSubScore(metric, value) ==
    LET th == QUALITY_THRESHOLDS[metric]
        reaches(limit) == IF metric = "debt_equity" THEN value <= limit
                          ELSE value >= limit
    IN  CASE reaches(th.excellent) -> 100
          [] ~reaches(th.excellent) /\ reaches(th.good) -> 75
          [] ~reaches(th.good) /\ reaches(th.acceptable) -> 50
          [] ~reaches(th.acceptable) /\ reaches(th.poor) -> 25
          [] OTHER -> 0
DeclaredGrade(score) ==
    CASE score >= 9000 -> "A+"
      [] score < 9000 /\ score >= 8000 -> "A"
      [] score < 8000 /\ score >= 7000 -> "B+"
      [] score < 7000 /\ score >= 6000 -> "B"
      [] score < 6000 /\ score >= 5000 -> "C"
      [] OTHER -> "D"
AllExcellent(r) ==
    \A k \in 1..Len(Metrics) :
        r[Metrics[k]] # NaN
        /\ DeclaredSubScore(Metrics[k], r[Metrics[k]]) = 100

\* C5: with all six metrics present, quality_score is min(100, 100 * the sum
\* of weight * sub-score) with the sub-score 1.0/0.75/0.50/0.25/0 by the
\* metric's thresholds (<= for debt_equity, >= for the others), it lies in
\* [0,100], the grade is A+/A/B+/B/C/D by the floors 90/80/70/60/50, and a
\* row with all six metrics excellent scores 100 with grade A+.
C5_ScoreAndGrade ==
    pc = "quality_scored" =>
        \A i \in 1..Len(quality) :
            LET r == quality[i]
                total == 25 * DeclaredSubScore("roe", r.roe)
                         + 20 * DeclaredSubScore("debt_equity", r.debt_equity)
                         + 20 * DeclaredSubScore("operating_margin", r.operating_margin)
                         + 15 * DeclaredSubScore("current_ratio", r.current_ratio)
                         + 10 * DeclaredSubScore("profit_margin", r.profit_margin)
                         + 10 * DeclaredSubScore("roa", r.roa)
            IN  MissingMetrics(r) = {} =>
                    /\ r.quality_score = (IF total < 10000 THEN total ELSE 10000)
                    /\ 0 <= r.quality_score /\ r.quality_score <= 10000
                    /\ r.quality_grade = DeclaredGrade(r.quality_score)
                    /\ AllExcellent(r) =>
                            r.quality_score = 10000 /\ r.quality_grade = "A+"

\* C5 witness: a scored row with all six metrics on their excellent
\* threshold, scored 100 and graded A+.
C5_Witness ==
    /\ pc = "quality_scored"
    /\ \E i \in 1..Len(quality) :
            /\ MissingMetrics(quality[i]) = {}
            /\ AllExcellent(quality[i])
            /\ quality[i].quality_score = 10000
            /\ quality[i].quality_grade = "A+"

(***************************************************************************)
(* Claims about the relative-strength engine                               *)
(***************************************************************************)
\* The symbols of the universe with a valid lookback return, and the ones
\* among them whose return is the maximum
ValidSymbols ==
    {k \in 1..Len(price_data) :
        IsValidReturn(lookback_return(price_data, price_data[k].symbol))}
ReturnOf(k) == lookback_return(price_data, price_data[k].symbol)
HasMaxReturn(k) ==
    k \in ValidSymbols /\ \A j \in ValidSymbols : ~RLt(ReturnOf(k), ReturnOf(j))
PercentileIs(k, num, den) ==
    /\ rs_results[k].symbol = price_data[k].symbol
    /\ ~RIsNaN(rs_results[k].rs_percentile)
    /\ rs_results[k].rs_percentile.n * den
            = Pct(100) * num * rs_results[k].rs_percentile.d
PercentileInRange(k) ==
    /\ AtLeast(rs_results[k].rs_percentile, 0)
    /\ rs_results[k].rs_percentile.n <= Pct(100) * rs_results[k].rs_percentile.d

\* C3 as claimed: every symbol with a valid lookback return has rs_percentile
\* in [0,100], and the symbol with the maximum lookback return has
\* percentile exactly 100*(N-1)/N, N the number of symbols with a valid
\* lookback return.
C3_MaxPercentile ==
    pc = "rs_done" =>
        \A k \in ValidSymbols :
            /\ PercentileInRange(k)
            /\ HasMaxReturn(k) =>
                    PercentileIs(k, Cardinality(ValidSymbols) - 1,
                                 Cardinality(ValidSymbols))

\* C3 amended: every symbol with a valid lookback return has rs_percentile in
\* [0,100], and a symbol with the maximum lookback return has percentile
\* exactly 100*(N-m)/N, m the number of symbols that share that maximum
\* (100*(N-1)/N when the maximum is attained by one symbol only).
C3_MaxPercentileTies ==
    pc = "rs_done" =>
        \A k \in ValidSymbols :
            /\ PercentileInRange(k)
            /\ HasMaxReturn(k) =>
                    PercentileIs(k,
                        Cardinality(ValidSymbols)
                            - Cardinality({j \in ValidSymbols : HasMaxReturn(j)}),
                        Cardinality(ValidSymbols))

\* C3 witness: three symbols with valid returns, two of them sharing the
\* maximum (percentile 100*1/3 each) and the third strictly lower.
C3_Witness ==
    /\ pc = "rs_done"
    /\ Cardinality(ValidSymbols) = 3
    /\ Cardinality({j \in ValidSymbols : HasMaxReturn(j)}) = 2
    /\ \A k \in ValidSymbols : HasMaxReturn(k) => PercentileIs(k, 1, 3)

\* C3, the case of the claim: a unique maximum among two valid returns, with
\* a third symbol whose return is unavailable and is not counted in N
C3_WitnessUnique ==
    /\ pc = "rs_done"
    /\ Len(price_data) = 3
    /\ Cardinality(ValidSymbols) = 2
    /\ \E k \in ValidSymbols :
            /\ HasMaxReturn(k)
            /\ \A j \in ValidSymbols \ {k} : ~HasMaxReturn(j)
            /\ PercentileIs(k, 1, 2)

(***************************************************************************)
(* Claims about the validator                                              *)
(***************************************************************************)
\* The sane range of each metric, bounds inclusive (hundredths)
DeclaredRange ==
    [roe |-> <<-10000, 20000>>, debt_equity |-> <<0, 1000>>,
     operating_margin |-> <<-5000, 10000>>, profit_margin |-> <<-5000, 10000>>,
     current_ratio |-> <<0, 2000>>, roa |-> <<-5000, 10000>>]
SixMetrics == {"roe", "debt_equity", "operating_margin", "current_ratio",
               "profit_margin", "roa"}
MetricValid(r, m) ==
    r[m] # NaN /\ DeclaredRange[m][1] <= r[m] /\ r[m] <= DeclaredRange[m][2]
ValidMetricCount(r) == Cardinality({m \in SixMetrics : MetricValid(r, m)})
Kept(r) ==
    \E i \in 1..Len(valid_df) :
        /\ valid_df[i].symbol = r.symbol
        /\ \A m \in SixMetrics : valid_df[i][m] = r[m]
Itemised(r) ==
    /\ r.symbol \in DOMAIN issues_by_stock
    /\ LET e == issues_by_stock[r.symbol]
       IN  /\ {e.Missing[i] : i \in 1..Len(e.Missing)}
                = {m \in SixMetrics : r[m] = NaN}
           /\ {e.Invalid[i].field : i \in 1..Len(e.Invalid)}
                = {m \in SixMetrics : r[m] # NaN /\ ~MetricValid(r, m)}
           /\ Len(e.Missing) = Cardinality({m \in SixMetrics : r[m] = NaN})
           /\ \A i \in 1..Len(e.Invalid) : e.Invalid[i].value = r[e.Invalid[i].field]

\* C8: validate_fundamentals keeps a record if and only if at least 4 of its
\* six metrics are valid (present and inside the metric's inclusive range);
\* a record with exactly 3 valid metrics is dropped; every dropped record is
\* in issues_by_symbol with its missing and invalid fields itemised.
C8_FourOfSix ==
    pc = "fundamentals_validated" =>
        /\ \A k \in 1..Len(fundamentals_df) :
                LET r == fundamentals_df[k]
                IN  /\ Kept(r) <=> ValidMetricCount(r) >= 4
                    /\ ValidMetricCount(r) = 3 => ~Kept(r)
                    /\ ~Kept(r) => Itemised(r)
        /\ \A i \in 1..Len(valid_df) :
                \E k \in 1..Len(fundamentals_df) :
                    fundamentals_df[k].symbol = valid_df[i].symbol

\* C8 witness: a validated table holding a record with exactly 3 valid
\* metrics (the other three out of range), dropped and itemised, beside a
\* record with exactly 4 valid metrics, kept.
C8_Witness ==
    /\ pc = "fundamentals_validated"
    /\ \E j, k \in 1..Len(fundamentals_df) :
            /\ ValidMetricCount(fundamentals_df[j]) = 3
            /\ \A m \in SixMetrics : fundamentals_df[j][m] # NaN
            /\ ~Kept(fundamentals_df[j]) /\ Itemised(fundamentals_df[j])
            /\ ValidMetricCount(fundamentals_df[k]) = 4
            /\ Kept(fundamentals_df[k])

\* The six checks of a price series, as the claims state them
PeriodReturns(f) == pct_change(f.Close, pad)
FailsCheck(f, j) ==
    CASE j = 1 -> f.none \/ Len(f.Close) = 0
      [] j = 2 -> Len(f.Close) < min_days
      [] j = 3 -> 100 * Cardinality({i \in 1..Len(f.Close) : f.Close[i] = NaN})
                    > 5 * Len(f.Close)
      [] j = 4 -> LET r == PeriodReturns(f)
                  IN  \E i \in 1..Len(f.Close) :
                        /\ r[i].n # NaN
                        /\ r[i].n = Inf \/ 2 * r[i].n > r[i].d \/ 2 * r[i].n < -r[i].d
      [] j = 5 -> f.days_old > 7
      [] j = 6 -> ~f.has_volume \/ \A i \in 1..Len(f.Volume) : f.Volume[i] = NaN
PassesAllChecks(f) == \A j \in 1..6 : ~FailsCheck(f, j)
ReasonOfCheck ==
    <<"No price data available", "Insufficient data", "Too many missing values",
      "Extreme price movements detected", "Stale data", "Missing volume data">>

C10_FirstFailingCheck ==
    pc = "prices_validated" =>
        \A k \in 1..Len(price_data) :
            LET s == price_data[k].symbol
                f == price_data[k].df
            IN  s \in DOMAIN issues =>
                    \E j \in 1..6 :
                        /\ FailsCheck(f, j)
                        /\ \A i \in 1..(j - 1) : ~FailsCheck(f, i)
                        /\ issues[s] = ReasonOfCheck[j]

\* C10 witness: a series that fails the extreme-return, the stale-data and
\* the volume check at once, recorded with the extreme-return reason.
C10_Witness ==
    /\ pc = "prices_validated"
    /\ \E k \in 1..Len(price_data) :
            LET f == price_data[k].df
            IN  /\ {j \in 1..6 : FailsCheck(f, j)} = {4, 5, 6}
                /\ price_data[k].symbol \in DOMAIN issues
                /\ issues[price_data[k].symbol] = "Extreme price movements detected"

(***************************************************************************)
(* Claims about the relative-strength ranks and returns                    *)
(***************************************************************************)
RankOf(k) == rs_results[k].rs_rank

\* C11: rs_rank gives the symbols with a valid lookback return the ranks
\* 1..K (K the number of such symbols), each rank used exactly once, in
\* order of descending return (rank 1 the highest); every symbol whose
\* lookback return is unavailable gets the sentinel rank 999.
C11_RanksArePermutation ==
    pc = "rs_done" =>
        /\ Len(rs_results) = Len(price_data)
        /\ {RankOf(k) : k \in ValidSymbols} = 1..Cardinality(ValidSymbols)
        /\ \A j, k \in ValidSymbols : j # k => RankOf(j) # RankOf(k)
        /\ \A j, k \in ValidSymbols :
                RLt(ReturnOf(j), ReturnOf(k)) => RankOf(k) < RankOf(j)
        /\ \A k \in 1..Len(price_data) : k \notin ValidSymbols => RankOf(k) = 999

\* C11 witness: two symbols tied on the return take the ranks 1 and 2, and a
\* third symbol without a valid return has rank 999.
C11_Witness ==
    /\ pc = "rs_done"
    /\ Len(price_data) = 3
    /\ Cardinality(ValidSymbols) = 2
    /\ \A j, k \in ValidSymbols : ~RLt(ReturnOf(j), ReturnOf(k))
    /\ {RankOf(k) : k \in ValidSymbols} = {1, 2}
    /\ \E k \in 1..3 : k \notin ValidSymbols /\ RankOf(k) = 999

\* The two closes the claims name: the end close is skip_recent bars before
\* the last observation, the start close period bars before the end close
CalledCloses == FrameOf(price_data, period_args.symbol).Close
EndAt == Len(CalledCloses) - period_args.skip_recent
StartAt == EndAt - period_args.period
WindowInSeries ==
    /\ period_args.symbol \in Keys(price_data)
    /\ ~FrameOf(price_data, period_args.symbol).none
    /\ StartAt >= 1
BadPrice(x) == x = 0 \/ x = NaN

\* C12: period_return returns None whenever either endpoint close of the
\* window - the start close or the end close - is zero or NaN, and otherwise
\* returns (end_close / start_close - 1) * 100.
C12_EndpointGuard ==
    (pc = "return_done" /\ WindowInSeries) =>
        LET end_close == CalledCloses[EndAt]
            start_close == CalledCloses[StartAt]
        IN  IF BadPrice(start_close) \/ BadPrice(end_close)
            THEN period_return.n = None
            ELSE /\ IsValidReturn(period_return)
                 /\ period_return.n * start_close
                        = Pct(100) * (end_close - start_close) * period_return.d

\* C13: if no symbol of the universe has a valid lookback return,
\* rs_percentile is the neutral value 50 for the queried symbol.
C13_NeutralPercentile ==
    (pc = "rs_done" /\ ValidSymbols = {}) =>
        \A k \in 1..Len(rs_results) : PercentileIs(k, 1, 2)

(***************************************************************************)
(* Claims about the quality engine: monotonicity, the quality gate         *)
(***************************************************************************)
OtherMetricsEqual(a, b, varied) ==
    \A m \in {"roe", "debt_equity", "operating_margin", "current_ratio",
               "profit_margin", "roa"} \ {varied} : a[m] = b[m]

\* C14: holding the other five metrics fixed (each present or missing),
\* quality_score is non-decreasing in roe and non-increasing in debt_equity
\* over the present values of the varied metric.
C14_Monotone ==
    (pc = "quality_scored" /\ Len(quality) = 2) =>
        LET a == quality[1]
            b == quality[2]
        IN  /\ (OtherMetricsEqual(a, b, "roe") /\ a.roe # NaN /\ b.roe # NaN
                    /\ a.roe <= b.roe)
                => a.quality_score <= b.quality_score
            /\ (OtherMetricsEqual(a, b, "debt_equity") /\ a.debt_equity # NaN
                    /\ b.debt_equity # NaN /\ a.debt_equity <= b.debt_equity)
                => a.quality_score >= b.quality_score

\* C14 witness: two rows, all metrics present, that differ in debt_equity
\* only; the row with the higher debt_equity has the strictly lower score.
C14_Witness ==
    /\ pc = "quality_scored" /\ Len(quality) = 2
    /\ \A m \in {"roe", "operating_margin", "current_ratio", "profit_margin",
                  "roa"} : quality[1][m] # NaN
    /\ OtherMetricsEqual(quality[1], quality[2], "debt_equity")
    /\ quality[1].debt_equity # NaN /\ quality[2].debt_equity # NaN
    /\ quality[1].debt_equity < quality[2].debt_equity
    /\ quality[1].quality_score > quality[2].quality_score

\* C14, the other direction: a higher roe with a strictly higher score
C14_WitnessRoe ==
    /\ pc = "quality_scored" /\ Len(quality) = 2
    /\ OtherMetricsEqual(quality[1], quality[2], "roe")
    /\ quality[1].roe # NaN /\ quality[2].roe # NaN
    /\ quality[1].roe < quality[2].roe
    /\ quality[1].quality_score < quality[2].quality_score

\* The three checks of the quality gate on the row handed to it
GateRow == fundamentals_df[1]
Evaluable == {m \in {"roe", "debt_equity", "operating_margin"} : GateRow[m] # NaN}
CheckPasses(m) ==
    CASE m = "roe" -> GateRow.roe >= gate_args.min_roe
      [] m = "debt_equity" -> GateRow.debt_equity <= gate_args.max_de
      [] m = "operating_margin" -> GateRow.operating_margin >= gate_args.min_margin

\* C15: is_quality_stock returns true if and only if at least 2 of the 3
\* checks are evaluable (their metric is present) and every evaluable check
\* passes; with fewer than 2 evaluable checks it returns false even if the
\* one evaluable check passes.
C15_QualityGate ==
    pc = "gated" =>
        /\ is_quality <=> (Cardinality(Evaluable) >= 2
                            /\ \A m \in Evaluable : CheckPasses(m))
        /\ Cardinality(Evaluable) < 2 => ~is_quality

\* C15 witness: only roe is present and it passes its check, and the gate
\* returned false.
C15_Witness ==
    /\ pc = "gated"
    /\ Evaluable = {"roe"} /\ CheckPasses("roe")
    /\ ~is_quality

\* C15, the positive case: two evaluable checks, both passing, one missing
C15_WitnessTwo ==
    /\ pc = "gated"
    /\ Cardinality(Evaluable) = 2 /\ \A m \in Evaluable : CheckPasses(m)
    /\ is_quality

(***************************************************************************)
(* Claims about validate_rs_results and the validator's side effects       *)
(***************************************************************************)
PercentileOK(row) ==
    /\ "rs_percentile" \in DOMAIN row
    /\ row.rs_percentile # NaN
    /\ 0 <= row.rs_percentile /\ row.rs_percentile <= 10000
VolatilityAbove150(row) ==
    "volatility" \in DOMAIN row /\ row.volatility # NaN /\ row.volatility > 15000

\* C16: validate_rs_results returns as valid exactly the rows whose
\* rs_percentile is present and within [0,100] and whose volatility is not
\* above 150; every other row's symbol is in the issues map with a reason;
\* no symbol is both in the valid rows and in the issues map.
C16_ValidRSRows ==
    pc = "rs_validated" =>
        /\ rs_valid_df = SelectSeq(rs_df, LAMBDA row :
                            PercentileOK(row) /\ ~VolatilityAbove150(row))
        /\ \A k \in 1..Len(rs_df) :
                ~(PercentileOK(rs_df[k]) /\ ~VolatilityAbove150(rs_df[k]))
                    => /\ rs_df[k].symbol \in DOMAIN rs_issues
                       /\ rs_issues[rs_df[k].symbol]
                            \in {"Invalid RS percentile", "Missing RS percentile",
                                 "Extreme volatility"}
        /\ \A k \in 1..Len(rs_valid_df) :
                rs_valid_df[k].symbol \notin DOMAIN rs_issues

\* C16 witness: three rows validated: one with percentile 100 and volatility
\* exactly 150 is valid, one is rejected for its volatility, one for its
\* percentile.
C16_Witness ==
    /\ pc = "rs_validated"
    /\ Len(rs_df) = 3 /\ Len(rs_valid_df) = 1
    /\ DOMAIN rs_valid_df[1] = {"symbol", "rs_percentile", "volatility"}
    /\ rs_valid_df[1].rs_percentile = 10000 /\ rs_valid_df[1].volatility = 15000
    /\ \E s \in DOMAIN rs_issues : rs_issues[s] = "Extreme volatility"
    /\ \E s \in DOMAIN rs_issues : rs_issues[s] = "Invalid RS percentile"

\* C17: the three validation operations have no side effects: after each
\* call the caller's input table or map is unchanged (same rows, same
\* columns, same values) and the validator's own state is unchanged.
C17_NoSideEffects ==
    [][/\ price_data' = price_data
       /\ fundamentals_df' = fundamentals_df
       /\ rs_df' = rs_df
       /\ validation_results' = validation_results]_vars

(***************************************************************************)
(* Claims about the order and the repeatability of the scoring             *)
(***************************************************************************)
InputPosition(symbol) == CHOOSE i \in 1..Len(df) : df[i].symbol = symbol
NonIncreasing(t) ==
    \A i \in 1..Len(t) : \A j \in i..Len(t) :
        RGe(t[i].composite_score, t[j].composite_score)
SameRows(t) ==
    /\ Len(t) = Len(df)
    /\ \A i \in 1..Len(df) :
            \E j \in 1..Len(t) :
                /\ t[j].symbol = df[i].symbol
                /\ \A c \in DOMAIN df[i] : t[j][c] = df[i][c]
TiesKeepInputOrder(t) ==
    \A i \in 1..Len(t) : \A j \in (i + 1)..Len(t) :
        REq(t[i].composite_score, t[j].composite_score)
            => InputPosition(t[i].symbol) < InputPosition(t[j].symbol)

\* C18: the table returned by calculate_composite_scores is ordered by
\* non-increasing composite_score, contains exactly the input rows, and rows
\* with equal composite_score keep the relative order they had in the input.
C18_SortedStable ==
    pc = "scored" =>
        NonIncreasing(scored) /\ SameRows(scored) /\ TiesKeepInputOrder(scored)

RowOf(t, symbol) == t[CHOOSE i \in 1..Len(t) : t[i].symbol = symbol]
SameScoresAndSignals(t, u) ==
    /\ Len(t) = Len(u)
    /\ \A i \in 1..Len(t) :
            /\ \E j \in 1..Len(u) : u[j].symbol = t[i].symbol
            /\ RowOf(u, t[i].symbol).composite_score = t[i].composite_score
            /\ RowOf(u, t[i].symbol).signal = t[i].signal

Bars(k) == IF price_data[k].df.none THEN 0 ELSE Len(price_data[k].df.Close)
\* The universe with symbol k's data unavailable
Without(k) ==
    [j \in 1..Len(price_data) |->
        IF j = k THEN [symbol |-> price_data[k].symbol, df |-> NoneFrame]
        ELSE price_data[j]]
RowsWithout(k) ==
    calculate_rs_metrics(Without(k), calculate_all_returns(Without(k), pad))

\* C20: calculate_rs_metrics returns exactly one row per symbol of the
\* price map, whatever mix of usable, None, empty and too-short series it
\* holds; a metric that cannot be computed for a symbol is an explicit
\* placeholder (period return None, rs_rank 999, rs_percentile 0, volatility
\* NaN, trend_strength 0); and the rows of the other symbols are the same
\* as if that symbol's data were unavailable.
C20_BatchSurvives ==
    pc = "rs_done" =>
        /\ Len(rs_results) = Len(price_data)
        /\ \A k \in 1..Len(price_data) :
            LET row == rs_results[k]
            IN  /\ row.symbol = price_data[k].symbol
                /\ Bars(k) < return_periods.return_1m + 1 => row.return_1m.n = None
                /\ Bars(k) < return_periods.return_3m + 1 => row.return_3m.n = None
                /\ Bars(k) < return_periods.return_6m + 1 => row.return_6m.n = None
                /\ Bars(k) < return_periods.return_12m + 1 => row.return_12m.n = None
                /\ Bars(k) < lookback_period + skip_recent_days + 1
                        => row.rs_rank = 999 /\ row.rs_percentile = RInt(0)
                /\ Bars(k) < volatility_period + 1 => RIsNaN(row.volatility)
                /\ Bars(k) < trend_strength_period => row.trend_strength = RInt(0)
                /\ Bars(k) < lookback_period + skip_recent_days + 1
                        => \A j \in 1..Len(price_data) :
                                j # k => rs_results[j] = RowsWithout(k)[j]

\* C20 witness: a universe of a None frame, a series too short for every
\* window and a usable series: three rows, the first two all placeholders,
\* the third with a rank, a volatility and a 12-month return.
C20_Witness ==
    /\ pc = "rs_done"
    /\ Len(rs_results) = 3
    /\ \E i, j, k \in 1..3 :
            /\ price_data[i].df.none
            /\ ~price_data[j].df.none /\ Bars(j) <= 1
            /\ \A x \in {i, j} :
                    /\ rs_results[x].rs_rank = 999
                    /\ rs_results[x].return_1m.n = None
                    /\ RIsNaN(rs_results[x].volatility)
            /\ rs_results[k].rs_rank = 1
            /\ ~RIsNaN(rs_results[k].volatility)
            /\ IsValidReturn(rs_results[k].return_12m)

(***************************************************************************)
(* Claims about the cache                                                  *)
(***************************************************************************)
\* the time to live the interface declares for a category, in seconds
DeclaredTTL(prefix) ==
    CASE prefix = "prices" -> 3600
      [] prefix = "fundamentals" -> 86400
      [] prefix = "screening" -> 1800
\* the last call was a get for a subject that data was cached for (and no
\* invalidate or clear_all came after that set)
GetAfterSet ==
    /\ cache_call.op = "get"
    /\ cache_call.subject \in DOMAIN set_log
\* the age, at the get, of what the last set for its subject cached
AgeAtGet == cache_call.at - set_log[cache_call.subject].timestamp

C21_WitnessExpired ==
    /\ GetAfterSet
    /\ cache_call.subject.prefix = "fundamentals"
    /\ set_log[cache_call.subject].returned
    /\ AgeAtGet = 86400
    /\ cache_call.result = CacheMiss

\* C22: a write is all or nothing: when the file write of set fails and set
\* returns False, no later get serves the entry that set wrote.
C22_AllOrNothing ==
    (GetAfterSet /\ ~set_log[cache_call.subject].returned) =>
        ~ /\ cache_call.result = Hit(set_log[cache_call.subject].data)
          /\ cache_call.key \in DOMAIN memory_cache
          /\ memory_cache[cache_call.key].timestamp
                = set_log[cache_call.subject].timestamp

\* the last get found no entry in either store when it ended
BothStoresEmpty ==
    /\ cache_call.key \notin DOMAIN memory_cache
    /\ cache_call.key \in DOMAIN file_cache
            => file_cache[cache_call.key] = Corrupt

C29_WitnessPromoted ==
    /\ GetAfterSet
    /\ cache_call.promoted
    /\ AgeAtGet > 0
    /\ memory_cache[cache_call.key].timestamp
            = set_log[cache_call.subject].timestamp

(***************************************************************************)
(* Claims about the data fetcher                                           *)
(***************************************************************************)
\* a call of fetch_historical_prices has been made
FetchMade == fetch_call.op = "fetch_historical_prices"
\* an earlier call for the same symbols and period fetched, less than an
\* hour before the last call
FetchedWithinTheHour ==
    /\ FetchMade
    /\ ~fetch_call.previous.none
    /\ fetch_call.at - fetch_call.previous.at < 3600
\* the frames of a fetched map that pass validation for a period, by symbol
PassingFrames(fetched_data, period_days) ==
    LET passing == {k \in 1..Len(fetched_data) :
                        price_issue(fetched_data[k].df, period_days, pad)
                            = "ok"}
    IN  [s \in {fetched_data[k].symbol : k \in passing} |->
            fetched_data[CHOOSE k \in passing : fetched_data[k].symbol = s].df]
\* every series of a stored map passes validation for the period of its key
HoldsValidSeries(store) ==
    \A key \in DOMAIN store :
        store[key] # Corrupt =>
            \A s \in DOMAIN store[key].data :
                price_issue(store[key].data[s], key.params.lookback, pad)
                    = "ok"

C24_WitnessMiss ==
    /\ FetchMade
    /\ fetch_call.fetched
    /\ Len(fetch_call.price_data) = 2
    /\ Cardinality(DOMAIN fetch_call.result) = 1
    /\ memory_cache[fetch_call.key].data = fetch_call.result

\* C30: when no requested symbol yields a valid series the empty map is
\* stored, and a call for the same symbols and period less than an hour
\* later returns that empty map from the cache without fetching.
C30_NegativeCaching ==
    FetchMade =>
        /\ (fetch_call.fetched /\ fetch_call.result = <<>>) =>
                /\ fetch_call.key \in DOMAIN memory_cache
                /\ memory_cache[fetch_call.key].data = <<>>
        /\ (FetchedWithinTheHour /\ fetch_call.previous.result = <<>>) =>
                /\ ~fetch_call.fetched
                /\ fetch_call.result = <<>>
\* the empty map of a failed fetch served again one second before it expires
C30_Witness ==
    /\ FetchMade
    /\ ~fetch_call.fetched
    /\ ~fetch_call.previous.none
    /\ fetch_call.previous.result = <<>>
    /\ fetch_call.at - fetch_call.previous.at = 3599
    /\ fetch_call.result = <<>>

(***************************************************************************)
(* Claims about the AI analyzer                                            *)
(***************************************************************************)
\* the rows returned are the rows handed in, in their order, with the same
\* symbol, composite_score and signal and one more column
SameRowsPlusText ==
    /\ Len(analyzed.rows) = Len(ai_df)
    /\ \A k \in 1..Len(ai_df) :
        /\ analyzed.rows[k].symbol = ai_df[k].symbol
        /\ analyzed.rows[k].composite_score = ai_df[k].composite_score
        /\ analyzed.rows[k].signal = ai_df[k].signal
        /\ DOMAIN analyzed.rows[k]
                = {"symbol", "composite_score", "signal", "ai_analysis"}

\* C23: analyze_top_stocks returns, for every scored table with distinct
\* symbols and whatever the key and the collaborator do, the same rows in the
\* same order with the same composite_score and signal, plus a text column.
C23_ResultsUnaltered ==
    pc = "analyzed" => ~analyzed.raised /\ SameRowsPlusText
\* the same for tables of at least one row
C23_NonEmptyUnaltered ==
    (pc = "analyzed" /\ ai_df # <<>>) => ~analyzed.raised /\ SameRowsPlusText
\* with a key, a table of three rows got the text for its best row only
C23_WitnessTopOne ==
    /\ pc = "analyzed" /\ api_key # "" /\ Len(ai_df) = 3
    /\ SameRowsPlusText
    /\ Cardinality({k \in 1..3 : analyzed.rows[k].ai_analysis # NoText}) = 1

(***************************************************************************)
(* Claims about the relative-strength engine, continued                    *)
(***************************************************************************)
\* the call was made for a symbol that has a frame
CalledOnSeries ==
    /\ pc = "return_done"
    /\ period_args.symbol \in Keys(price_data)
    /\ ~FrameOf(price_data, period_args.symbol).none
\* the observations a value needs: period + skip_recent + 1
NeededLength == period_args.period + period_args.skip_recent + 1

\* C25: a call of period_return ends with None or a value; it ends with None
\* for every series of fewer than period + skip_recent + 1 observations, the
\* series of exactly period + skip_recent observations included, and a value
\* is returned only for series of at least that length.
C25_NeededLength ==
    /\ pc = "return_done" =>
            period_return.n = None \/ IsValidReturn(period_return)
    /\ CalledOnSeries =>
            /\ Len(CalledCloses) < NeededLength => period_return.n = None
            /\ IsValidReturn(period_return) =>
                    Len(CalledCloses) >= NeededLength
\* a series of exactly period + skip_recent observations gave None
C25_Witness ==
    /\ CalledOnSeries
    /\ Len(CalledCloses) = period_args.period + period_args.skip_recent
    /\ period_args.skip_recent > 0
    /\ \A i \in 1..Len(CalledCloses) : CalledCloses[i] = 100
    /\ period_return.n = None
\* a series of exactly period + skip_recent + 1 observations gave a value
C25_WitnessValue ==
    /\ CalledOnSeries
    /\ Len(CalledCloses) = NeededLength
    /\ IsValidReturn(period_return)

\* the rs_percentile of the k-th symbol
PercentileOf(k) == rs_results[k].rs_percentile
SameNumber(x, y) == x.n * y.d = y.n * x.d
DistinctReturns ==
    \A j, k \in ValidSymbols : j # k => ~SameNumber(ReturnOf(j), ReturnOf(k))

\* C26: among the symbols with a valid lookback return, a strictly higher
\* return has a strictly smaller rs_rank and a strictly higher rs_percentile,
\* equal returns have the same rs_percentile and different rs_rank, and when
\* all K valid returns differ the symbol of rank r has percentile
\* 100*(K-r)/K.
C26_RankMatchesPercentile ==
    pc = "rs_done" =>
        /\ \A j, k \in ValidSymbols :
            /\ RLt(ReturnOf(j), ReturnOf(k)) =>
                    /\ RankOf(k) < RankOf(j)
                    /\ RLt(PercentileOf(j), PercentileOf(k))
            /\ (j # k /\ SameNumber(ReturnOf(j), ReturnOf(k))) =>
                    /\ SameNumber(PercentileOf(j), PercentileOf(k))
                    /\ RankOf(j) # RankOf(k)
        /\ DistinctReturns =>
                \A k \in ValidSymbols :
                    PercentileIs(k, Cardinality(ValidSymbols) - RankOf(k),
                                 Cardinality(ValidSymbols))
\* three distinct valid returns: ranks 1, 2, 3 with percentiles 200/3, 100/3
\* and 0
C26_Witness ==
    /\ pc = "rs_done"
    /\ Cardinality(ValidSymbols) = 3
    /\ DistinctReturns
    /\ \A k \in ValidSymbols : PercentileIs(k, 3 - RankOf(k), 3)
\* two symbols with equal returns: one percentile, two ranks
C26_WitnessTie ==
    /\ pc = "rs_done"
    /\ \E j, k \in ValidSymbols :
        /\ j # k
        /\ SameNumber(ReturnOf(j), ReturnOf(k))
        /\ SameNumber(PercentileOf(j), PercentileOf(k))
        /\ RankOf(j) # RankOf(k)

(***************************************************************************)
(* Claims about the screening engine, continued                            *)
(***************************************************************************)
NamedStrategies == {"RS + Quality", "RS + Value", "RS + Low Volatility"}

\* the 60/40 blend of a scored row, a missing quality_score counted as 0
QualityBlend(r) ==
    RAdd(RWeight(60, RInt(r.rs_percentile)),
         RWeight(40, IF r.quality_score = NaN THEN RInt(0)
                     ELSE RInt(r.quality_score)))

\* C27: the strategy selection falls back silently.  With no 'strategy' key
\* in params every row gets the 'RS + Quality' blend; with a strategy string
\* that is not exactly one of the three named strategies (the UI labels
\* included) every row's composite_score equals its rs_percentile; in both
\* cases the call returns the whole batch, scored.
C27_SilentFallback ==
    pc = "scored" =>
        /\ Len(scored) = Len(df)
        /\ "strategy" \notin DOMAIN params =>
                \A i \in 1..Len(scored) :
                    REq(scored[i].composite_score, QualityBlend(scored[i]))
        /\ ("strategy" \in DOMAIN params /\ params.strategy \notin NamedStrategies) =>
                \A i \in 1..Len(scored) :
                    REq(scored[i].composite_score, RInt(scored[i].rs_percentile))

\* C27 witness: a batch scored under the UI label 'RS + Quality
\* (Recommended)' with a row whose 60/40 blend differs from its
\* rs_percentile, and which got the rs_percentile.
C27_Witness ==
    /\ pc = "scored"
    /\ "strategy" \in DOMAIN params
    /\ params.strategy = "RS + Quality (Recommended)"
    /\ \E i \in 1..Len(scored) :
            /\ ~REq(QualityBlend(scored[i]), RInt(scored[i].rs_percentile))
            /\ REq(scored[i].composite_score, RInt(scored[i].rs_percentile))

\* C27, the absent key: a batch scored with no 'strategy' in params and a row
\* whose blend differs from its rs_percentile
C27_WitnessNoKey ==
    /\ pc = "scored"
    /\ "strategy" \notin DOMAIN params
    /\ \E i \in 1..Len(scored) :
            /\ ~REq(QualityBlend(scored[i]), RInt(scored[i].rs_percentile))
            /\ REq(scored[i].composite_score, QualityBlend(scored[i]))

\* the optional parameters of apply_filters that params leaves out
AbsentOptional == {"min_roe", "max_de", "min_margin", "min_mcap"} \ DOMAIN params

\* the filters that the claim applies to a row r when optional parameters
\* are absent: an absent soft threshold filters nothing, an absent min_mcap
\* stands for the floor of 5000
PassesWithDefaults(r) ==
    /\ r.rs_percentile # NaN /\ r.rs_percentile >= params.rs_threshold
    /\ ("min_roe" \in DOMAIN params /\ params.min_roe # 0) =>
            r.roe = NaN \/ r.roe >= params.min_roe
    /\ ("max_de" \in DOMAIN params /\ params.max_de # 0) =>
            r.debt_equity = NaN \/ r.debt_equity <= params.max_de
    /\ ("min_margin" \in DOMAIN params /\ params.min_margin # 0) =>
            r.operating_margin = NaN \/ r.operating_margin >= params.min_margin
    /\ "min_mcap" \notin DOMAIN params =>
            r.market_cap # NaN /\ r.market_cap >= Pct(5000)
    /\ ("min_mcap" \in DOMAIN params /\ params.min_mcap # 0) =>
            r.market_cap # NaN /\ r.market_cap >= params.min_mcap
    /\ r.current_price # NaN

\* C28: apply_filters tolerates absent optional parameters.  With
\* rs_threshold given and any of min_roe, max_de, min_margin, min_mcap
\* absent, the call does not raise; an absent soft threshold skips its
\* filter and an absent min_mcap applies the floor of 5000, so the rows
\* returned are exactly the input rows that pass the remaining filters.
C28_AbsentTolerated ==
    (pc = "filtered" /\ "rs_threshold" \in DOMAIN params /\ AbsentOptional # {}) =>
        /\ ~filtered.raised
        /\ filtered.rows = SelectSeq(df, PassesWithDefaults)

\* the same with min_mcap given: the part of C28 that the code keeps
C28_AbsentSoftTolerated ==
    (pc = "filtered" /\ {"rs_threshold", "min_mcap"} \subseteq DOMAIN params
        /\ AbsentOptional # {}) =>
        /\ ~filtered.raised
        /\ filtered.rows = SelectSeq(df, PassesWithDefaults)

\* C28, the failing call: min_mcap absent, rs_threshold given, and a row that
\* passes every filter with the floor of 5000; apply_filters raised
C28_RaisedOnAbsentMcap ==
    /\ pc = "filtered"
    /\ "rs_threshold" \in DOMAIN params /\ "min_mcap" \notin DOMAIN params
    /\ \E k \in 1..Len(df) : PassesWithDefaults(df[k])
    /\ filtered.raised

====
